---------------------------- MODULE Spec2Model ----------------------------
(***************************************************************************)
(* FF-A client library of ArmPkg: the direct-message codec, the blocking   *)
(* call engine with its interrupt re-entry loop, the memory transactions   *)
(* and partition discovery (ArmFfaLibEx.c).                                *)
(*                                                                         *)
(* Machine words.  A UINTN/UINT64 register is a tuple of four 16-bit       *)
(* halfwords, least significant first: <<h0, h1, h2, h3>> stands for       *)
(* h0 + 2^16*h1 + 2^32*h2 + 2^48*h3.  Every shift, mask and cast of the    *)
(* modelled code falls on a 16-bit boundary, so the representation is      *)
(* exact.  A 16-byte EFI_GUID is the tuple of its eight little-endian      *)
(* halfwords as it lies in memory: Data1 = g[1..2], Data2 = g[3],          *)
(* Data3 = g[4], Data4[0..7] = g[5..8].                                    *)
(*                                                                         *)
(* ASSERT is DebugLib's macro.  The model follows the execution that       *)
(* continues past it (the macro expands to nothing under MDEPKG_NDEBUG)    *)
(* and records a violated condition in assertFailed.                       *)
(***************************************************************************)
EXTENDS Integers, Sequences, FiniteSets, TLC

VARIABLES
  pc,            \* "idle": no call in progress; "exchange": a request is with
                 \* the remote side; "check": a response has been received;
                 \* "returned": the call is back in its caller
  op,            \* the operation in progress, or the last one that returned
  args,          \* the inputs of that operation
  Request,       \* the register vector last handed to ArmCallSxc
  Result,        \* the register vector ArmCallSxc last handed back
  trace,         \* the events of the call, in order: requests sent,
                 \* responses received, interrupt handler invocations
  ret,           \* the value returned and the outputs written by the call
  Message,       \* the caller's DIRECT_MSG_ARGS_EX object
  assertFailed,  \* an ASSERT of the call found its condition false
  gPartId,       \* this partition's endpoint id (extern UINT16 gPartId)
  mMyId,         \* Tpm2ServiceFfaRaw.c: the cached endpoint id of the client
  mFfaTpm2PartitionId, \* and the cached endpoint id of the TPM service
  PcdFfaTxBuffer,      \* ArmFfaRxTxMap.c: the registered Tx buffer address,
  PcdFfaRxBuffer,      \* the registered Rx buffer address,
  PcdFfaTxRxPageCount, \* the configured size of each buffer in pages,
  AllocatedPages       \* and the page blocks the allocator has handed out

vars == <<pc, op, args, Request, Result, trace, ret, Message, assertFailed,
          gPartId, mMyId, mFfaTpm2PartitionId,
          PcdFfaTxBuffer, PcdFfaRxBuffer, PcdFfaTxRxPageCount, AllocatedPages>>

\* The Rx/Tx buffer registration and the pages behind it
buffers == <<PcdFfaTxBuffer, PcdFfaRxBuffer, PcdFfaTxRxPageCount, AllocatedPages>>

\* The data that outlives a call
statics == <<gPartId, mMyId, mFfaTpm2PartitionId, buffers>>

-----------------------------------------------------------------------------
(* Bounds of the model. *)

\* Interrupted responses the remote side delivers to one call at most.
MaxInterrupts == 2

\* Partitions in the remote side's table at most.
MaxParts == 6

\* Largest capacity (*PartDescCount) a caller passes in.
MaxCapacity == 6

-----------------------------------------------------------------------------
(* Words *)

Zero64 == <<0, 0, 0, 0>>

\* (UINT32)w, widened back to a register
Lo32(w) == <<w[1], w[2], 0, 0>>

\* w >> 16, w >> 32 and w << 32 on 64 bits
Shr16(w) == <<w[2], w[3], w[4], 0>>

Shr32(w) == <<w[3], w[4], 0, 0>>

Shl32(w) == <<0, 0, w[1], w[2]>>

RECURSIVE BitOr(_, _)
BitOr(a, b) ==
  IF a = 0 THEN b
  ELSE IF b = 0 THEN a
  ELSE (IF a % 2 = 1 \/ b % 2 = 1 THEN 1 ELSE 0) + 2 * BitOr(a \div 2, b \div 2)

\* a | b on 64 bits
Or64(a, b) == [i \in 1 .. 4 |-> BitOr(a[i], b[i])]

\* MAX_UINT32 in a UINT32 object: two halfwords
MAX_UINT32 == <<\hFFFF, \hFFFF>>

\* SwapBytes16 on a halfword
SwapBytes16(h) == (h % 256) * 256 + (h \div 256)

-----------------------------------------------------------------------------
(* Wire constants (IndustryStandard/ArmFfaSvc.h), as the code names them. *)

ARM_FID_FFA_ERROR == <<\h0060, \h8400, 0, 0>>

ARM_FID_FFA_SUCCESS_AARCH32 == <<\h0061, \h8400, 0, 0>>

ARM_FID_FFA_SUCCESS_AARCH64 == <<\h0061, \hC400, 0, 0>>

ARM_FID_FFA_INTERRUPT == <<\h0062, \h8400, 0, 0>>

ARM_FID_FFA_WAIT == <<\h006B, \h8400, 0, 0>>

ARM_FID_FFA_MSG_SEND_DIRECT_REQ_AARCH32 == <<\h006F, \h8400, 0, 0>>

ARM_FID_FFA_MSG_SEND_DIRECT_REQ_AARCH64 == <<\h006F, \hC400, 0, 0>>

ARM_FID_FFA_MSG_SEND_DIRECT_RESP_AARCH32 == <<\h0070, \h8400, 0, 0>>

ARM_FID_FFA_MSG_SEND_DIRECT_RESP_AARCH64 == <<\h0070, \hC400, 0, 0>>

ARM_FID_FFA_MSG_SEND_DIRECT_REQ2 == <<\h008D, \hC400, 0, 0>>

ARM_FID_FFA_MSG_SEND_DIRECT_RESP2 == <<\h008E, \hC400, 0, 0>>

ARM_FID_FFA_PARTITION_INFO_GET_REGS == <<\h008B, \hC400, 0, 0>>

ARM_FID_FFA_MEM_DONATE_AARCH32 == <<\h0071, \h8400, 0, 0>>

ARM_FID_FFA_MEM_DONATE_AARCH64 == <<\h0071, \hC400, 0, 0>>

ARM_FID_FFA_MEM_LEND_AARCH32 == <<\h0072, \h8400, 0, 0>>

ARM_FID_FFA_MEM_LEND_AARCH64 == <<\h0072, \hC400, 0, 0>>

ARM_FID_FFA_MEM_SHARE_AARCH32 == <<\h0073, \h8400, 0, 0>>

ARM_FID_FFA_MEM_SHARE_AARCH64 == <<\h0073, \hC400, 0, 0>>

ARM_FID_FFA_MEM_RETRIEVE_REQ_AARCH32 == <<\h0074, \h8400, 0, 0>>

ARM_FID_FFA_MEM_RETRIEVE_REQ_AARCH64 == <<\h0074, \hC400, 0, 0>>

ARM_FID_FFA_MEM_RETRIEVE_RESP == <<\h0075, \h8400, 0, 0>>

ARM_FID_FFA_MEM_RETRIEVE_RELINQUISH == <<\h0076, \h8400, 0, 0>>

ARM_FID_FFA_MEM_RETRIEVE_RECLAIM == <<\h0077, \h8400, 0, 0>>

\* FF-A status codes: negative INT32 values in the low half of word 2
ARM_FFA_RET_SUCCESS == <<0, 0, 0, 0>>

ARM_FFA_RET_NOT_SUPPORTED == <<\hFFFF, \hFFFF, 0, 0>>

ARM_FFA_RET_INVALID_PARAMETERS == <<\hFFFE, \hFFFF, 0, 0>>

ARM_FFA_RET_NO_MEMORY == <<\hFFFD, \hFFFF, 0, 0>>

ARM_FFA_RET_BUSY == <<\hFFFC, \hFFFF, 0, 0>>

ARM_FFA_RET_INTERRUPTED == <<\hFFFB, \hFFFF, 0, 0>>

ARM_FFA_RET_DENIED == <<\hFFFA, \hFFFF, 0, 0>>

ARM_FFA_RET_RETRY == <<\hFFF9, \hFFFF, 0, 0>>

ARM_FFA_RET_ABORTED == <<\hFFF8, \hFFFF, 0, 0>>

ARM_FFA_RET_NODATA == <<\hFFF7, \hFFFF, 0, 0>>

ARM_FFA_RET_NOT_READY == <<\hFFF6, \hFFFF, 0, 0>>

-----------------------------------------------------------------------------
(* Register vectors: ARM_SXC_ARGS, Arg0 .. Arg17. *)

ArgCount == 18

\* ARM_SXC_ARGS v = { 0 }
ZeroArgs == [i \in 1 .. ArgCount |-> Zero64]

\* v.Arg<i>
Arg(v, i) == v[i + 1]

\* v with Arg<i> = w
SetArg(v, i, w) == [v EXCEPT ![i + 1] = w]

-----------------------------------------------------------------------------
(* Status Translator.  FfaStatusToEfiStatus belongs to ArmFfaLib and is    *)
(* not among the sources; it is modelled from the specification (4.1, 7):  *)
(* a total function of the status code, every code outside the known set   *)
(* giving the generic device error.                                        *)

FfaStatusToEfiStatus(FfaStatus) ==
  LET Code == Lo32(FfaStatus) IN
  CASE Code = ARM_FFA_RET_SUCCESS            -> "EFI_SUCCESS"
    [] Code = ARM_FFA_RET_NOT_SUPPORTED      -> "EFI_UNSUPPORTED"
    [] Code = ARM_FFA_RET_INVALID_PARAMETERS -> "EFI_INVALID_PARAMETER"
    [] Code = ARM_FFA_RET_NO_MEMORY          -> "EFI_OUT_OF_RESOURCES"
    [] Code = ARM_FFA_RET_BUSY               -> "EFI_NOT_READY"
    [] Code = ARM_FFA_RET_DENIED             -> "EFI_ACCESS_DENIED"
    [] Code = ARM_FFA_RET_ABORTED            -> "EFI_ABORTED"
    [] Code = ARM_FFA_RET_NODATA             -> "EFI_NOT_FOUND"
    [] Code = ARM_FFA_RET_NOT_READY          -> "EFI_NOT_READY"
    [] OTHER                                 -> "EFI_DEVICE_ERROR"

-----------------------------------------------------------------------------
(* Identifier Canonicalizer *)

NullGuid == <<0, 0, 0, 0, 0, 0, 0, 0>>

\* A null pointer passed for an optional argument
NULL == <<>>

\* Fault injection: the exchange of Data2 and Data3 with an addition that
\* saturates at 0xFFFF where the UINT16 field wraps.
FfaPrepareGuidSaturating(Guid) ==
  LET Sum    == Guid[3] + Guid[4]
      Data2a == IF Sum > 65535 THEN 65535 ELSE Sum
      Data3b == (Data2a - Guid[4]) % 65536
      Data2c == (Data2a - Data3b) % 65536
  IN  <<Guid[1], Guid[2], Data2c, Data3b,
        SwapBytes16(Guid[6]), SwapBytes16(Guid[5]),
        SwapBytes16(Guid[8]), SwapBytes16(Guid[7])>>

\* Fault injection: the bytes reversed within each halfword of TempData[2]
\* and TempData[3], the halfwords left in place.
FfaPrepareGuidHalfwords(Guid) ==
  LET Data2a == (Guid[3] + Guid[4]) % 65536
      Data3b == (Data2a - Guid[4]) % 65536
      Data2c == (Data2a - Data3b) % 65536
  IN  <<Guid[1], Guid[2], Data2c, Data3b,
        SwapBytes16(Guid[5]), SwapBytes16(Guid[6]),
        SwapBytes16(Guid[7]), SwapBytes16(Guid[8])>>

\* The arithmetic exchange of Data2 and Data3 (UINT16 fields: every
\* assignment truncates to 16 bits), then SwapBytes32 of TempData[2] and
\* TempData[3].  SwapBytes32 of the halfword pair (lo, hi) is the pair
\* (SwapBytes16(hi), SwapBytes16(lo)).
FfaPrepareGuid(Guid) ==
  LET Data2a == (Guid[3] + Guid[4]) % 65536
      Data3b == (Data2a - Guid[4]) % 65536
      Data2c == (Data2a - Data3b) % 65536
  IN  <<Guid[1], Guid[2], Data2c, Data3b,
        SwapBytes16(Guid[6]), SwapBytes16(Guid[5]),
        SwapBytes16(Guid[8]), SwapBytes16(Guid[7])>>

\* The copy of the function in the TPM service client.
Tpm2FfaPrepareGuid(Guid) ==
  LET Data2a == (Guid[3] + Guid[4]) % 65536
      Data3b == (Data2a - Guid[4]) % 65536
      Data2c == (Data2a - Data3b) % 65536
  IN  <<Guid[1], Guid[2], Data2c, Data3b,
        SwapBytes16(Guid[6]), SwapBytes16(Guid[5]),
        SwapBytes16(Guid[8]), SwapBytes16(Guid[7])>>

\* CopyMem (&Guid, &v.Arg<i>, sizeof (EFI_GUID)): the 16 bytes of two registers
GuidAt(v, i) == Arg(v, i) \o Arg(v, i + 1)

\* CopyMem (&v.Arg<i>, &Guid, sizeof (EFI_GUID))
PutGuid(v, i, Guid) ==
  [v EXCEPT ![i + 1] = SubSeq(Guid, 1, 4), ![i + 2] = SubSeq(Guid, 5, 8)]

-----------------------------------------------------------------------------
(* Message Codec.  A DIRECT_MSG_ARGS_EX is the record                      *)
(*   [FunctionId (UINT32), SourceId, DestinationId (UINT16),                *)
(*    ServiceGuid, Arg (Arg0 .. Arg13 as Arg[1] .. Arg[14])].               *)

PayloadCount == 14

\* (DIRECT_MSG_ARGS_EX) { .FunctionId = Fid }
MessageOf(Fid) ==
  [Arg           |-> [i \in 1 .. PayloadCount |-> Zero64],
   FunctionId    |-> Lo32(Fid),
   SourceId      |-> 0,
   DestinationId |-> 0,
   ServiceGuid   |-> NullGuid]

\* The message Msg after FfaUnpackDirectMessage (Response, &Msg)
FfaUnpackDirectMessage(Response, Msg) ==
  LET FunctionId == Lo32(Arg(Response, 0))
      Header == [Msg EXCEPT !.FunctionId    = FunctionId,
                            !.SourceId      = Shr16(Arg(Response, 1))[1],
                            !.DestinationId = Arg(Response, 1)[1]]
  IN  IF \/ FunctionId = ARM_FID_FFA_MSG_SEND_DIRECT_REQ_AARCH32
         \/ FunctionId = ARM_FID_FFA_MSG_SEND_DIRECT_REQ_AARCH64
      THEN [Header EXCEPT !.Arg = [i \in 1 .. PayloadCount |->
                                     IF i <= 6 THEN Arg(Response, i + 1)
                                               ELSE Msg.Arg[i]]]
      ELSE [Header EXCEPT !.ServiceGuid = FfaPrepareGuid(GuidAt(Response, 2)),
                          !.Arg = [i \in 1 .. PayloadCount |->
                                     Arg(Response, i + 3)]]

\* Fault injection: packing that copies the service identifier as it is and
\* starts the payload of every variant at slot 2.
FfaPackDirectMessageRaw(Req, Msg) ==
  [Request |-> [i \in 1 .. ArgCount |->
                  CASE i = 1 -> Lo32(Msg.FunctionId)
                    [] i = 2 -> <<Msg.DestinationId, Msg.SourceId, 0, 0>>
                    [] i \in 3 .. 16 -> Msg.Arg[i - 2]
                    [] OTHER -> Req[i]],
   Message |-> Msg]

\* The request Req and the message Msg after
\* FfaPackDirectMessage (&Req, &Msg)
FfaPackDirectMessage(Req, Msg) ==
  LET Header == [Req EXCEPT ![1] = Lo32(Msg.FunctionId),
                            ![2] = <<Msg.DestinationId, Msg.SourceId, 0, 0>>]
  IN  IF \/ Msg.FunctionId = ARM_FID_FFA_MSG_SEND_DIRECT_REQ_AARCH32
         \/ Msg.FunctionId = ARM_FID_FFA_MSG_SEND_DIRECT_REQ_AARCH64
         \/ Msg.FunctionId = ARM_FID_FFA_MSG_SEND_DIRECT_RESP_AARCH32
         \/ Msg.FunctionId = ARM_FID_FFA_MSG_SEND_DIRECT_RESP_AARCH64
      THEN [Request |-> [i \in 1 .. ArgCount |->
                           IF i \in 3 .. 8 THEN Msg.Arg[i - 2] ELSE Header[i]],
            Message |-> Msg]
      ELSE [Request |-> [i \in 1 .. ArgCount |->
                           IF i \in 5 .. 18
                           THEN Msg.Arg[i - 4]
                           ELSE PutGuid(Header, 2, FfaPrepareGuid(Msg.ServiceGuid))[i]],
            Message |-> Msg]

-----------------------------------------------------------------------------
(* The values the callers and the remote side are drawn from. *)

\* Register contents by pattern: 1 = a 32-bit value, 2 = all 64 bits in use,
\* 3 = all ones; each slot of a pattern holds a value of its own.
PatWord(p, i) ==
  CASE p = 1 -> <<\h0100 + i, \h0200 + i, 0, 0>>
    [] p = 2 -> <<\h1000 + i, \h2000 + i, \h3000 + i, \h4000 + i>>
    [] OTHER -> <<\hFFFF, \hFFFF, \hFFFF, \hFFFF>>

Patterns == {1, 2, 3}

\* A service identifier as a caller holds it, such as the one
\* gEfiTpm2ServiceFfaGuid names: 17b862a4-1806-4faf-86b3-089a58353861
SampleGuid == <<\h62A4, \h17B8, \h1806, \h4FAF, \hB386, \h9A08, \h3558, \h6138>>

SampleHalf == {0, 1, \h00FF, \h8000, \hFFFF, \h1234}

\* Identifiers whose Data2 + Data3 does and does not exceed 16 bits
GuidInputs ==
  {<<p, q, d2, d3, \hB2A1, q, \h0102, p>> :
     d2 \in SampleHalf, d3 \in SampleHalf, p \in {0, \hD4C3}, q \in {0, \hFFFF}}

EndpointIds == {0, \h8001, \hFFFF}

DirectFids ==
  {ARM_FID_FFA_MSG_SEND_DIRECT_REQ_AARCH32, ARM_FID_FFA_MSG_SEND_DIRECT_REQ_AARCH64,
   ARM_FID_FFA_MSG_SEND_DIRECT_RESP_AARCH32, ARM_FID_FFA_MSG_SEND_DIRECT_RESP_AARCH64,
   ARM_FID_FFA_MSG_SEND_DIRECT_REQ2, ARM_FID_FFA_MSG_SEND_DIRECT_RESP2}

BasicFids ==
  {ARM_FID_FFA_MSG_SEND_DIRECT_REQ_AARCH32, ARM_FID_FFA_MSG_SEND_DIRECT_REQ_AARCH64,
   ARM_FID_FFA_MSG_SEND_DIRECT_RESP_AARCH32, ARM_FID_FFA_MSG_SEND_DIRECT_RESP_AARCH64}

\* A caller's message object with payload pattern p
MessageWith(Fid, Src, Dst, Guid, p) ==
  [Arg           |-> [i \in 1 .. PayloadCount |-> PatWord(p, i + 32)],
   FunctionId    |-> Lo32(Fid),
   SourceId      |-> Src,
   DestinationId |-> Dst,
   ServiceGuid   |-> Guid]

\* What a caller's message object holds before a call writes to it
StaleMessages ==
  {MessageWith(Zero64, 0, 0, NullGuid, 3),
   MessageWith(ARM_FID_FFA_MSG_SEND_DIRECT_REQ2, \h8001, \h8002, SampleGuid, 1)}

\* A function id that differs from FFA_ERROR in the upper half of the register
ErrorIdHigh == <<\h0060, \h8400, 1, 0>>

ResponseFids ==
  {ARM_FID_FFA_ERROR, ErrorIdHigh,
   ARM_FID_FFA_SUCCESS_AARCH32, ARM_FID_FFA_SUCCESS_AARCH64,
   ARM_FID_FFA_INTERRUPT,
   ARM_FID_FFA_MSG_SEND_DIRECT_REQ_AARCH32, ARM_FID_FFA_MSG_SEND_DIRECT_REQ_AARCH64,
   ARM_FID_FFA_MSG_SEND_DIRECT_REQ2,
   ARM_FID_FFA_MSG_SEND_DIRECT_RESP_AARCH64, ARM_FID_FFA_MSG_SEND_DIRECT_RESP2,
   ARM_FID_FFA_MEM_RETRIEVE_RESP}

StatusCodes ==
  {ARM_FFA_RET_SUCCESS, ARM_FFA_RET_NOT_SUPPORTED, ARM_FFA_RET_INVALID_PARAMETERS,
   ARM_FFA_RET_NO_MEMORY, ARM_FFA_RET_BUSY, ARM_FFA_RET_INTERRUPTED,
   ARM_FFA_RET_DENIED, ARM_FFA_RET_RETRY, ARM_FFA_RET_ABORTED,
   ARM_FFA_RET_NODATA, ARM_FFA_RET_NOT_READY}

\* A response vector: function id in word 0, the pattern in every other word
PatternResponse(Fid, p) ==
  [i \in 1 .. ArgCount |-> IF i = 1 THEN Fid ELSE PatWord(p, i - 1)]

\* An FFA_ERROR response carrying status code Code in word 2
ErrorResponse(Code) ==
  SetArg(PatternResponse(ARM_FID_FFA_ERROR, 1), 2, Code)

\* Everything the remote side may hand back through the register vector
Responses ==
  {PatternResponse(f, p) : f \in ResponseFids, p \in {1, 2}}
    \cup {ErrorResponse(c) : c \in StatusCodes}

-----------------------------------------------------------------------------
(* Call Engine *)

ReqEvent(v) == [kind |-> "request", val |-> v]

RespEvent(v) == [kind |-> "response", val |-> v]

IntEvent(id) == [kind |-> "interrupt", val |-> id]

\* Positions of the events of one kind in a trace
EventsOf(t, k) == {i \in DOMAIN t : t[i].kind = k}

NoRet == [status |-> "pending"]

Init ==
  /\ pc = "idle"
  /\ op = "none"
  /\ args = <<>>
  /\ Request = ZeroArgs
  /\ Result = ZeroArgs
  /\ trace = <<>>
  /\ ret = NoRet
  /\ Message = MessageOf(Zero64)
  /\ assertFailed = FALSE
  /\ gPartId \in {\h8003, \hFFFF}
  /\ mMyId = MAX_UINT32
  /\ mFfaTpm2PartitionId = MAX_UINT32
  /\ PcdFfaTxBuffer = 0
  /\ PcdFfaRxBuffer = 0
  /\ PcdFfaTxRxPageCount = 1
  /\ AllocatedPages = {}

\* A call starts: Result = { 0 }, and ArmCallSxc hands Req to the remote side
\* and blocks the caller.
BeginCall(name, a, msg, req) ==
  /\ pc = "idle"
  /\ op' = name
  /\ args' = a
  /\ Message' = msg
  /\ Request' = req
  /\ Result' = ZeroArgs
  /\ trace' = <<ReqEvent(req)>>
  /\ ret' = NoRet
  /\ assertFailed' = FALSE
  /\ pc' = "exchange"
  /\ UNCHANGED statics

\* ArmCallSxc returns: the remote side has overwritten the whole vector.  The
\* remote side answers one call with at most MaxInterrupts interrupts.
ArmCallSxc ==
  /\ pc = "exchange"
  /\ \E r \in Responses :
       /\ Arg(r, 0) = ARM_FID_FFA_INTERRUPT
            => Cardinality(EventsOf(trace, "interrupt")) < MaxInterrupts
       /\ Result' = r
       /\ trace' = Append(trace, RespEvent(r))
  /\ pc' = "check"
  /\ UNCHANGED <<op, args, Request, ret, Message, assertFailed, statics>>

\* while (Result.Arg0 == ARM_FID_FFA_INTERRUPT)
InterruptPending(Res) == Arg(Res, 0) = ARM_FID_FFA_INTERRUPT

\* Fault injection: the interrupt id read from word 1
InterruptIdWord1(Res) == Lo32(Arg(Res, 1))

\* The argument of SecurePartitionInterruptHandler: (UINT32)Result.Arg2
InterruptId(Res) == Lo32(Arg(Res, 2))

\* The request FfaReturnFromInterrupt sends
FfaReturnFromInterrupt == SetArg(ZeroArgs, 0, ARM_FID_FFA_WAIT)

\* Fault injection: a loop that gives up resuming after its first turn
InterruptLoopOnce(name) ==
  /\ pc = "check"
  /\ op = name
  /\ Arg(Result, 0) = ARM_FID_FFA_INTERRUPT
  /\ EventsOf(trace, "interrupt") = {}
  /\ Request' = SetArg(ZeroArgs, 0, ARM_FID_FFA_WAIT)
  /\ trace' = trace \o <<IntEvent(Lo32(Arg(Result, 2))),
                         ReqEvent(SetArg(ZeroArgs, 0, ARM_FID_FFA_WAIT))>>
  /\ pc' = "exchange"
  /\ UNCHANGED <<op, args, Result, ret, Message, assertFailed, statics>>

\* One turn of the loop of operation name: the handler runs, then
\* FfaReturnFromInterrupt hands the resume request to the remote side.
InterruptLoop(name) ==
  /\ pc = "check"
  /\ op = name
  /\ InterruptPending(Result)
  /\ Request' = FfaReturnFromInterrupt
  /\ trace' = trace \o <<IntEvent(InterruptId(Result)),
                         ReqEvent(FfaReturnFromInterrupt)>>
  /\ pc' = "exchange"
  /\ UNCHANGED <<op, args, Result, ret, Message, assertFailed, statics>>

\* Operation name leaves its loop and returns r
ReturnCall(name, r) ==
  /\ pc = "check"
  /\ op = name
  /\ ~InterruptPending(Result)
  /\ ret' = [status |-> r.status]
  /\ Message' = r.Message
  /\ assertFailed' = r.assert
  /\ pc' = "returned"
  /\ UNCHANGED <<op, args, Request, Result, trace, statics>>

\* The caller has looked at what its call returned and goes on to its next
\* call; nothing of the finished call is kept but the partition id.
CallerProceeds ==
  /\ pc = "returned"
  /\ pc' = "idle"
  /\ op' = "none"
  /\ args' = <<>>
  /\ Request' = ZeroArgs
  /\ Result' = ZeroArgs
  /\ trace' = <<>>
  /\ ret' = NoRet
  /\ Message' = MessageOf(Zero64)
  /\ assertFailed' = FALSE
  /\ UNCHANGED statics

\* Fault injection: an error response translated from word 1
FfaMessageWaitResultWord1(Res, Msg) ==
  IF Arg(Res, 0) = ARM_FID_FFA_ERROR
  THEN [Message |-> Msg, status |-> FfaStatusToEfiStatus(Arg(Res, 1)),
        assert |-> FALSE]
  ELSE [Message |-> FfaUnpackDirectMessage(Res, Msg), status |-> "EFI_SUCCESS",
        assert |-> FALSE]

\* What FfaMessageWait makes of the response that ends its loop
FfaMessageWaitResult(Res, Msg) ==
  IF Arg(Res, 0) = ARM_FID_FFA_ERROR
  THEN [Message |-> Msg, status |-> FfaStatusToEfiStatus(Arg(Res, 2)),
        assert |-> FALSE]
  ELSE IF \/ Arg(Res, 0) = ARM_FID_FFA_MSG_SEND_DIRECT_REQ_AARCH32
          \/ Arg(Res, 0) = ARM_FID_FFA_MSG_SEND_DIRECT_REQ_AARCH64
          \/ Arg(Res, 0) = ARM_FID_FFA_MSG_SEND_DIRECT_REQ2
  THEN [Message |-> FfaUnpackDirectMessage(Res, Msg), status |-> "EFI_SUCCESS",
        assert |-> FALSE]
  ELSE [Message |-> MessageOf(Arg(Res, 0)), status |-> "EFI_SUCCESS",
        assert |-> Arg(Res, 0) # ARM_FID_FFA_SUCCESS_AARCH32]

FfaMessageWait ==
  \E m \in StaleMessages :
    BeginCall("FfaMessageWait", [Message |-> m], m,
              SetArg(ZeroArgs, 0, ARM_FID_FFA_WAIT))

FfaMessageWaitInterrupt == InterruptLoop("FfaMessageWait")

FfaMessageWaitReturn ==
  ReturnCall("FfaMessageWait", FfaMessageWaitResult(Result, Message))

\* Fault injection: an error response leaves nothing of the caller's message
FfaMessageSendDirectReq2ResultErased(Res, Msg) ==
  IF Arg(Res, 0) = ARM_FID_FFA_ERROR
  THEN [Message |-> MessageOf(Arg(Res, 0)),
        status |-> FfaStatusToEfiStatus(Arg(Res, 2)), assert |-> FALSE]
  ELSE IF Arg(Res, 0) = ARM_FID_FFA_MSG_SEND_DIRECT_RESP2
  THEN [Message |-> FfaUnpackDirectMessage(Res, Msg), status |-> "EFI_SUCCESS",
        assert |-> FALSE]
  ELSE [Message |-> MessageOf(Arg(Res, 0)), status |-> "EFI_SUCCESS",
        assert |-> Arg(Res, 0) # ARM_FID_FFA_SUCCESS_AARCH32]

\* What FfaMessageSendDirectReq2 makes of the response that ends its loop
FfaMessageSendDirectReq2Result(Res, Msg) ==
  IF Arg(Res, 0) = ARM_FID_FFA_ERROR
  THEN [Message |-> Msg, status |-> FfaStatusToEfiStatus(Arg(Res, 2)),
        assert |-> FALSE]
  ELSE IF Arg(Res, 0) = ARM_FID_FFA_MSG_SEND_DIRECT_RESP2
  THEN [Message |-> FfaUnpackDirectMessage(Res, Msg), status |-> "EFI_SUCCESS",
        assert |-> FALSE]
  ELSE [Message |-> MessageOf(Arg(Res, 0)), status |-> "EFI_SUCCESS",
        assert |-> Arg(Res, 0) # ARM_FID_FFA_SUCCESS_AARCH32]

\* ImpDefArgs as FfaMessageSendDirectReq2 fills it in before packing
DirectReq2Message(DestPartId, ServiceGuid, ImpDefArgs) ==
  [ImpDefArgs EXCEPT
     !.FunctionId    = ARM_FID_FFA_MSG_SEND_DIRECT_REQ2,
     !.SourceId      = gPartId,
     !.DestinationId = DestPartId,
     !.ServiceGuid   = IF ServiceGuid = NULL THEN NullGuid ELSE ServiceGuid]

FfaMessageSendDirectReq2 ==
  \E DestPartId \in {\h8001, \hFFFF}, ServiceGuid \in {NULL, SampleGuid},
     ImpDefArgs \in StaleMessages :
    LET Packed == FfaPackDirectMessage(
                    ZeroArgs, DirectReq2Message(DestPartId, ServiceGuid, ImpDefArgs))
    IN  BeginCall("FfaMessageSendDirectReq2",
                  [ServiceGuid |-> ServiceGuid, DestPartId |-> DestPartId,
                   ImpDefArgs |-> ImpDefArgs],
                  Packed.Message, Packed.Request)

FfaMessageSendDirectReq2Interrupt == InterruptLoop("FfaMessageSendDirectReq2")

FfaMessageSendDirectReq2Return ==
  ReturnCall("FfaMessageSendDirectReq2",
             FfaMessageSendDirectReq2Result(Result, Message))

\* Fault injection: the last branch writes the function id and nothing else
FfaMessageSendDirectRespResultKeeps(Res, Msg) ==
  IF Arg(Res, 0) = ARM_FID_FFA_ERROR
  THEN [Message |-> Msg, status |-> FfaStatusToEfiStatus(Arg(Res, 2)),
        assert |-> FALSE]
  ELSE IF \/ Arg(Res, 0) = ARM_FID_FFA_MSG_SEND_DIRECT_REQ_AARCH32
          \/ Arg(Res, 0) = ARM_FID_FFA_MSG_SEND_DIRECT_REQ_AARCH64
          \/ Arg(Res, 0) = ARM_FID_FFA_MSG_SEND_DIRECT_REQ2
  THEN [Message |-> FfaUnpackDirectMessage(Res, Msg), status |-> "EFI_SUCCESS",
        assert |-> FALSE]
  ELSE [Message |-> [Msg EXCEPT !.FunctionId = Lo32(Arg(Res, 0))],
        status |-> "EFI_SUCCESS",
        assert |-> Arg(Res, 0) # ARM_FID_FFA_SUCCESS_AARCH32]

\* What FfaMessageSendDirectResp makes of the response that ends its loop
FfaMessageSendDirectRespResult(Res, Msg) ==
  IF Arg(Res, 0) = ARM_FID_FFA_ERROR
  THEN [Message |-> Msg, status |-> FfaStatusToEfiStatus(Arg(Res, 2)),
        assert |-> FALSE]
  ELSE IF \/ Arg(Res, 0) = ARM_FID_FFA_MSG_SEND_DIRECT_REQ_AARCH32
          \/ Arg(Res, 0) = ARM_FID_FFA_MSG_SEND_DIRECT_REQ_AARCH64
          \/ Arg(Res, 0) = ARM_FID_FFA_MSG_SEND_DIRECT_REQ2
  THEN [Message |-> FfaUnpackDirectMessage(Res, Msg), status |-> "EFI_SUCCESS",
        assert |-> FALSE]
  ELSE [Message |-> MessageOf(Arg(Res, 0)), status |-> "EFI_SUCCESS",
        assert |-> Arg(Res, 0) # ARM_FID_FFA_SUCCESS_AARCH32]

\* FfaMessageSendDirectResp32, FfaMessageSendDirectResp64 and
\* FfaMessageSendDirectResp2 pass their function id to FfaMessageSendDirectResp;
\* Message is the caller's Response object.
FfaMessageSendDirectResp ==
  \E FunctionId \in {ARM_FID_FFA_MSG_SEND_DIRECT_RESP_AARCH32,
                     ARM_FID_FFA_MSG_SEND_DIRECT_RESP_AARCH64,
                     ARM_FID_FFA_MSG_SEND_DIRECT_RESP2},
     Req \in {MessageWith(Zero64, gPartId, \h8001, SampleGuid, 2)},
     Response \in StaleMessages :
    LET Packed == FfaPackDirectMessage(
                    ZeroArgs, [Req EXCEPT !.FunctionId = FunctionId])
    IN  BeginCall("FfaMessageSendDirectResp",
                  [Request |-> Req, FunctionId |-> FunctionId,
                   Response |-> Response],
                  Response, Packed.Request)

FfaMessageSendDirectRespInterrupt == InterruptLoop("FfaMessageSendDirectResp")

FfaMessageSendDirectRespReturn ==
  ReturnCall("FfaMessageSendDirectResp",
             FfaMessageSendDirectRespResult(Result, Message))

-----------------------------------------------------------------------------
(* Memory Transaction Manager.  Each of these operations is one exchange:  *)
(* the request goes out, the remote side's response comes back, and the    *)
(* operation returns.                                                      *)

\* Fault injection: the request issued a second time when the remote side
\* answers busy or retry
ExchangedAgain(name, a, Req, Res, out) ==
  /\ op' = name
  /\ args' = a
  /\ Message' = MessageOf(Zero64)
  /\ Request' = Req
  /\ Result' = Res
  /\ trace' = IF /\ Arg(Res, 0) = ARM_FID_FFA_ERROR
                 /\ Arg(Res, 2) \in {ARM_FFA_RET_BUSY, ARM_FFA_RET_RETRY}
              THEN <<ReqEvent(Req), RespEvent(Res), ReqEvent(Req), RespEvent(Res)>>
              ELSE <<ReqEvent(Req), RespEvent(Res)>>
  /\ ret' = out.ret
  /\ assertFailed' = out.assert
  /\ pc' = "returned"
  /\ UNCHANGED statics

\* Req is exchanged for the response Res and the operation returns out
Exchanged(name, a, Req, Res, out) ==
  /\ op' = name
  /\ args' = a
  /\ Message' = MessageOf(Zero64)
  /\ Request' = Req
  /\ Result' = Res
  /\ trace' = <<ReqEvent(Req), RespEvent(Res)>>
  /\ ret' = out.ret
  /\ assertFailed' = out.assert
  /\ pc' = "returned"
  /\ UNCHANGED statics

\* An operation of one exchange, called by a caller that is ready to call
SingleExchange(name, a, Req, Res, out) ==
  /\ pc = "idle"
  /\ Exchanged(name, a, Req, Res, out)

\* UINT32 lengths and page counts, and buffer addresses, callers pass
Lengths == {<<\h0040, 0, 0, 0>>, <<\hFFFF, \hFFFF, 0, 0>>}

\* Fragment lengths: equal to the total length 0x40, below it and above it
FragmentLengths == {<<\h0040, 0, 0, 0>>, <<\h0020, 0, 0, 0>>, <<\h0080, 0, 0, 0>>}

BufferAddrs == {Zero64, <<\h2000, \h8000, \h0001, 0>>}

MemInputs ==
  [TotalLength : Lengths, FragmentLength : FragmentLengths,
   BufferAddr : BufferAddrs, PageCount : {<<1, 0, 0, 0>>}]

\* Fault injection: the function id chosen by the page count
MemRequestByPageCount(Fid64, Fid32, a) ==
  [i \in 1 .. ArgCount |->
     CASE i = 1 -> IF a.PageCount # Zero64 THEN Fid64 ELSE Fid32
       [] i = 2 -> a.TotalLength
       [] i = 3 -> a.FragmentLength
       [] i = 4 -> a.BufferAddr
       [] i = 5 -> a.PageCount
       [] OTHER -> Zero64]

\* Fault injection: a fragment length that is not the total length is
\* replaced by the total length
MemRequestSingleFragment(Fid64, Fid32, a) ==
  [i \in 1 .. ArgCount |->
     CASE i = 1 -> IF a.BufferAddr # Zero64 THEN Fid64 ELSE Fid32
       [] i = 2 -> a.TotalLength
       [] i = 3 -> a.TotalLength
       [] i = 4 -> a.BufferAddr
       [] i = 5 -> a.PageCount
       [] OTHER -> Zero64]

\* The request of donate, lend, share and retrieve: the function id is the
\* 64-bit one when a buffer address is given
MemRequest(Fid64, Fid32, a) ==
  [i \in 1 .. ArgCount |->
     CASE i = 1 -> IF a.BufferAddr # Zero64 THEN Fid64 ELSE Fid32
       [] i = 2 -> a.TotalLength
       [] i = 3 -> a.FragmentLength
       [] i = 4 -> a.BufferAddr
       [] i = 5 -> a.PageCount
       [] OTHER -> Zero64]

\* *Handle = ((UINT64)Result.Arg3 << 32) | Result.Arg2
HandleOf(Res) == Or64(Shl32(Arg(Res, 3)), Arg(Res, 2))

FfaMemDonateResult(Res) ==
  IF Arg(Res, 0) = ARM_FID_FFA_ERROR
  THEN [ret |-> [status |-> FfaStatusToEfiStatus(Arg(Res, 2)), Handle |-> Zero64],
        assert |-> FALSE]
  ELSE [ret |-> [status |-> "EFI_SUCCESS", Handle |-> HandleOf(Res)],
        assert |-> Arg(Res, 0) # ARM_FID_FFA_SUCCESS_AARCH32]

FfaMemDonate ==
  \E a \in MemInputs, r \in Responses :
    SingleExchange("FfaMemDonate", a,
                   MemRequest(ARM_FID_FFA_MEM_DONATE_AARCH64,
                              ARM_FID_FFA_MEM_DONATE_AARCH32, a),
                   r, FfaMemDonateResult(r))

FfaMemLendResult(Res) ==
  IF Arg(Res, 0) = ARM_FID_FFA_ERROR
  THEN [ret |-> [status |-> FfaStatusToEfiStatus(Arg(Res, 2)), Handle |-> Zero64],
        assert |-> FALSE]
  ELSE [ret |-> [status |-> "EFI_SUCCESS", Handle |-> HandleOf(Res)],
        assert |-> Arg(Res, 0) # ARM_FID_FFA_SUCCESS_AARCH32]

FfaMemLend ==
  \E a \in MemInputs, r \in Responses :
    SingleExchange("FfaMemLend", a,
                   MemRequest(ARM_FID_FFA_MEM_LEND_AARCH64,
                              ARM_FID_FFA_MEM_LEND_AARCH32, a),
                   r, FfaMemLendResult(r))

\* Fault injection: the handle of a refused share left as the response has it
FfaMemShareResultKeepsHandle(Res) ==
  IF Arg(Res, 0) = ARM_FID_FFA_ERROR
  THEN [ret |-> [status |-> FfaStatusToEfiStatus(Arg(Res, 2)),
                 Handle |-> HandleOf(Res)],
        assert |-> FALSE]
  ELSE [ret |-> [status |-> "EFI_SUCCESS", Handle |-> HandleOf(Res)],
        assert |-> Arg(Res, 0) # ARM_FID_FFA_SUCCESS_AARCH32]

FfaMemShareResult(Res) ==
  IF Arg(Res, 0) = ARM_FID_FFA_ERROR
  THEN [ret |-> [status |-> FfaStatusToEfiStatus(Arg(Res, 2)), Handle |-> Zero64],
        assert |-> FALSE]
  ELSE [ret |-> [status |-> "EFI_SUCCESS", Handle |-> HandleOf(Res)],
        assert |-> Arg(Res, 0) # ARM_FID_FFA_SUCCESS_AARCH32]

FfaMemShare ==
  \E a \in MemInputs, r \in Responses :
    SingleExchange("FfaMemShare", a,
                   MemRequest(ARM_FID_FFA_MEM_SHARE_AARCH64,
                              ARM_FID_FFA_MEM_SHARE_AARCH32, a),
                   r, FfaMemShareResult(r))

\* Mutant: the two response lengths read from each other's word
FfaMemRetrieveReqResultSwapped(Res) ==
  IF Arg(Res, 0) = ARM_FID_FFA_ERROR
  THEN [ret |-> [status |-> FfaStatusToEfiStatus(Arg(Res, 2)),
                 RespTotalLength |-> Zero64, RespFragmentLength |-> Zero64],
        assert |-> FALSE]
  ELSE [ret |-> [status |-> "EFI_SUCCESS",
                 RespTotalLength |-> Lo32(Arg(Res, 2)),
                 RespFragmentLength |-> Lo32(Arg(Res, 1))],
        assert |-> Arg(Res, 0) # ARM_FID_FFA_MEM_RETRIEVE_RESP]

FfaMemRetrieveReqResult(Res) ==
  IF Arg(Res, 0) = ARM_FID_FFA_ERROR
  THEN [ret |-> [status |-> FfaStatusToEfiStatus(Arg(Res, 2)),
                 RespTotalLength |-> Zero64, RespFragmentLength |-> Zero64],
        assert |-> FALSE]
  ELSE [ret |-> [status |-> "EFI_SUCCESS",
                 RespTotalLength |-> Lo32(Arg(Res, 1)),
                 RespFragmentLength |-> Lo32(Arg(Res, 2))],
        assert |-> Arg(Res, 0) # ARM_FID_FFA_MEM_RETRIEVE_RESP]

FfaMemRetrieveReq ==
  \E a \in MemInputs, r \in Responses :
    SingleExchange("FfaMemRetrieveReq", a,
                   MemRequest(ARM_FID_FFA_MEM_RETRIEVE_REQ_AARCH64,
                              ARM_FID_FFA_MEM_RETRIEVE_REQ_AARCH32, a),
                   r, FfaMemRetrieveReqResult(r))

FfaMemRelinquishResult(Res) ==
  IF Arg(Res, 0) = ARM_FID_FFA_ERROR
  THEN [ret |-> [status |-> FfaStatusToEfiStatus(Arg(Res, 2))], assert |-> FALSE]
  ELSE [ret |-> [status |-> "EFI_SUCCESS"],
        assert |-> Arg(Res, 0) # ARM_FID_FFA_SUCCESS_AARCH32]

FfaMemRelinquish ==
  \E r \in Responses :
    SingleExchange("FfaMemRelinquish", <<>>,
                   SetArg(ZeroArgs, 0, ARM_FID_FFA_MEM_RETRIEVE_RELINQUISH),
                   r, FfaMemRelinquishResult(r))

FfaMemReclaimResult(Res) ==
  IF Arg(Res, 0) = ARM_FID_FFA_ERROR
  THEN [ret |-> [status |-> FfaStatusToEfiStatus(Arg(Res, 2))], assert |-> FALSE]
  ELSE [ret |-> [status |-> "EFI_SUCCESS"],
        assert |-> Arg(Res, 0) # ARM_FID_FFA_SUCCESS_AARCH32]

\* Fault injection: the halves of the handle in each other's word
FfaMemReclaimRequestSwapped(Handle, Flags) ==
  [i \in 1 .. ArgCount |->
     CASE i = 1 -> ARM_FID_FFA_MEM_RETRIEVE_RECLAIM
       [] i = 2 -> Shr32(Handle)
       [] i = 3 -> Lo32(Handle)
       [] i = 4 -> Flags
       [] OTHER -> Zero64]

\* HandleLo in word 1, HandleHi in word 2, Flags in word 3
FfaMemReclaimRequest(Handle, Flags) ==
  [i \in 1 .. ArgCount |->
     CASE i = 1 -> ARM_FID_FFA_MEM_RETRIEVE_RECLAIM
       [] i = 2 -> Lo32(Handle)
       [] i = 3 -> Shr32(Handle)
       [] i = 4 -> Flags
       [] OTHER -> Zero64]

FfaMemReclaim ==
  \E Handle \in {Zero64, PatWord(1, 2), PatWord(2, 2)},
     Flags \in {Zero64, <<1, 0, 0, 0>>}, r \in Responses :
    SingleExchange("FfaMemReclaim", [Handle |-> Handle, Flags |-> Flags],
                   FfaMemReclaimRequest(Handle, Flags), r, FfaMemReclaimResult(r))

\* The inputs of the RxTx variants: the descriptor is in the communication
\* buffer registered beforehand
RxTxInputs ==
  [TotalLength : Lengths, FragmentLength : FragmentLengths]

\* The arguments an RxTx variant passes on: NULL for BufferAddr, 0 for
\* PageCount
ThroughRxTx(a) ==
  [TotalLength |-> a.TotalLength, FragmentLength |-> a.FragmentLength,
   BufferAddr |-> Zero64, PageCount |-> Zero64]

\* FfaMemDonateRxTx, FfaMemLendRxTx, FfaMemShareRxTx and FfaMemRetrieveReqRxTx:
\* each returns what the operation it wraps returns
FfaMemRxTx ==
  \E a \in RxTxInputs, r \in Responses :
    \/ SingleExchange("FfaMemDonateRxTx", a,
                      MemRequest(ARM_FID_FFA_MEM_DONATE_AARCH64,
                                 ARM_FID_FFA_MEM_DONATE_AARCH32, ThroughRxTx(a)),
                      r, FfaMemDonateResult(r))
    \/ SingleExchange("FfaMemLendRxTx", a,
                      MemRequest(ARM_FID_FFA_MEM_LEND_AARCH64,
                                 ARM_FID_FFA_MEM_LEND_AARCH32, ThroughRxTx(a)),
                      r, FfaMemLendResult(r))
    \/ SingleExchange("FfaMemShareRxTx", a,
                      MemRequest(ARM_FID_FFA_MEM_SHARE_AARCH64,
                                 ARM_FID_FFA_MEM_SHARE_AARCH32, ThroughRxTx(a)),
                      r, FfaMemShareResult(r))
    \/ SingleExchange("FfaMemRetrieveReqRxTx", a,
                      MemRequest(ARM_FID_FFA_MEM_RETRIEVE_REQ_AARCH64,
                                 ARM_FID_FFA_MEM_RETRIEVE_REQ_AARCH32, ThroughRxTx(a)),
                      r, FfaMemRetrieveReqResult(r))

-----------------------------------------------------------------------------
(* The remote side of a lend that keeps the handles it issues.  A handle   *)
(* is the pair of 32-bit words w2 (low) and w3 (high) of the FFA_SUCCESS   *)
(* that answers the lend; FFA_MEM_RECLAIM names it by the same pair in w1  *)
(* and w2, and is answered with FFA_SUCCESS for a pair that was issued and *)
(* with INVALID_PARAMETERS for any other.                                  *)

\* The pair the remote side issued with the response Res
IssuedHandle(Res) == <<Lo32(Arg(Res, 2)), Lo32(Arg(Res, 3))>>

\* The pair a reclaim request names
PresentedHandle(Req) == <<Lo32(Arg(Req, 1)), Lo32(Arg(Req, 2))>>

RemoteReclaim(Req, Issued) ==
  IF PresentedHandle(Req) = Issued
  THEN SetArg(ZeroArgs, 0, ARM_FID_FFA_SUCCESS_AARCH32)
  ELSE ErrorResponse(ARM_FFA_RET_INVALID_PARAMETERS)

\* A handle value the remote side issues to nobody
ForgedHandle == <<\hDEAD, 0, \hBEEF, 0>>

\* The caller whose lend was answered with FFA_SUCCESS reclaims: with the
\* handle the lend gave it, or with a value of its own making.
FfaMemReclaimLent ==
  /\ pc = "returned"
  /\ op \in {"FfaMemLend", "FfaMemLendRxTx"}
  /\ Arg(Result, 0) = ARM_FID_FFA_SUCCESS_AARCH32
  /\ \E Handle \in {ret.Handle, ForgedHandle}, Flags \in {Zero64, <<1, 0, 0, 0>>} :
       LET Req == FfaMemReclaimRequest(Handle, Flags)
           Res == RemoteReclaim(Req, IssuedHandle(Result))
       IN  Exchanged("FfaMemReclaim",
                     [Handle |-> Handle, Flags |-> Flags,
                      Issued |-> IssuedHandle(Result), Lent |-> ret.Handle],
                     Req, Res, FfaMemReclaimResult(Res))

-----------------------------------------------------------------------------
(* Notification Service.  Each operation is one exchange; the response is  *)
(* looked at for the error function id only.                               *)

\* ARM_FID_FFA_NOTIFICATION_<field>
ARM_FID_FFA_NOTIFICATION ==
  [BITMAP_CREATE  |-> <<\h007D, \h8400, 0, 0>>,
   BITMAP_DESTROY |-> <<\h007E, \h8400, 0, 0>>,
   BIND           |-> <<\h007F, \h8400, 0, 0>>,
   UNBIND         |-> <<\h0080, \h8400, 0, 0>>,
   SET            |-> <<\h0081, \h8400, 0, 0>>,
   GET            |-> <<\h0082, \h8400, 0, 0>>]

\* FFA_NOTIFICATIONS_FLAG_BITMAP_<field>
FFA_NOTIFICATIONS_FLAG_BITMAP ==
  [SP  |-> <<\h0001, 0, 0, 0>>,
   VM  |-> <<\h0002, 0, 0, 0>>,
   HYP |-> <<\h0008, 0, 0, 0>>]

\* A UINT64 NotificationBitmap argument, and what *NotificationBitmap holds
\* before FfaNotificationGet
SampleBitmap == <<\h0001, 0, 0, \h8000>>

\* What FfaNotificationSet, FfaNotificationBitmapCreate,
\* FfaNotificationBitmapDestroy, FfaNotificationBind and
\* FfaNotificationUnbind return
FfaNotificationResult(Res) ==
  IF Arg(Res, 0) = ARM_FID_FFA_ERROR
  THEN [ret |-> [status |-> FfaStatusToEfiStatus(Arg(Res, 2))], assert |-> FALSE]
  ELSE [ret |-> [status |-> "EFI_SUCCESS"], assert |-> FALSE]

\* *NotificationBitmap = ((UINT64)Result.Arg<i + 1> << 32) | Result.Arg<i>
\* for the plane Flags names; any other Flags is EFI_UNSUPPORTED, after the
\* exchange
FfaNotificationGetResult(Flags, Res) ==
  LET Pair(i) == Or64(Shl32(Arg(Res, i + 1)), Arg(Res, i))
  IN  IF Arg(Res, 0) = ARM_FID_FFA_ERROR
      THEN [ret |-> [status |-> FfaStatusToEfiStatus(Arg(Res, 2)),
                     NotificationBitmap |-> SampleBitmap],
            assert |-> FALSE]
      ELSE CASE Flags = FFA_NOTIFICATIONS_FLAG_BITMAP.SP
                  -> [ret |-> [status |-> "EFI_SUCCESS", NotificationBitmap |-> Pair(2)],
                      assert |-> FALSE]
             [] Flags = FFA_NOTIFICATIONS_FLAG_BITMAP.VM
                  -> [ret |-> [status |-> "EFI_SUCCESS", NotificationBitmap |-> Pair(4)],
                      assert |-> FALSE]
             [] Flags = FFA_NOTIFICATIONS_FLAG_BITMAP.HYP
                  -> [ret |-> [status |-> "EFI_SUCCESS", NotificationBitmap |-> Pair(6)],
                      assert |-> FALSE]
             [] OTHER
                  -> [ret |-> [status |-> "EFI_UNSUPPORTED",
                               NotificationBitmap |-> SampleBitmap],
                      assert |-> FALSE]

\* The six notification operations.  ((UINT32)a << 16) | b of two UINT16
\* values is the register <<b, a, 0, 0>>; (UINT32)Bitmap and
\* (UINT32)(Bitmap >> 32) are the two halves of the bitmap.
FfaNotification ==
  \E r \in Responses, DestinationId \in {\h8001} :
    LET Lo == Lo32(SampleBitmap)
        Hi == <<SampleBitmap[3], SampleBitmap[4], 0, 0>>
        Request5(Fid, w1, w2) ==
          SetArg(SetArg(SetArg(SetArg(SetArg(ZeroArgs, 0, Fid), 1, w1), 2, w2),
                        3, Lo), 4, Hi)
    IN  \/ \E Flags \in {Zero64, <<\h0001, 0, 0, 0>>} :
             SingleExchange("FfaNotificationSet",
               [DestinationId |-> DestinationId, Flags |-> Flags,
                NotificationBitmap |-> SampleBitmap],
               Request5(ARM_FID_FFA_NOTIFICATION.SET,
                        <<DestinationId, gPartId, 0, 0>>, Flags),
               r, FfaNotificationResult(r))
        \/ \E VCpuId \in {\h0001},
              Flags \in {FFA_NOTIFICATIONS_FLAG_BITMAP.SP,
                         FFA_NOTIFICATIONS_FLAG_BITMAP.VM,
                         FFA_NOTIFICATIONS_FLAG_BITMAP.HYP,
                         <<\h0003, 0, 0, 0>>} :
             SingleExchange("FfaNotificationGet",
               [Flags |-> Flags, VCpuId |-> VCpuId],
               SetArg(SetArg(SetArg(ZeroArgs, 0, ARM_FID_FFA_NOTIFICATION.GET),
                             1, <<gPartId, VCpuId, 0, 0>>), 2, Flags),
               r, FfaNotificationGetResult(Flags, r))
        \/ \E VCpuCount \in {\h0004} :
             SingleExchange("FfaNotificationBitmapCreate",
               [VCpuCount |-> VCpuCount],
               SetArg(SetArg(SetArg(ZeroArgs, 0,
                                    ARM_FID_FFA_NOTIFICATION.BITMAP_CREATE),
                             1, <<gPartId, 0, 0, 0>>), 2, <<VCpuCount, 0, 0, 0>>),
               r, FfaNotificationResult(r))
        \/ SingleExchange("FfaNotificationBitmapDestroy", <<>>,
             SetArg(SetArg(ZeroArgs, 0, ARM_FID_FFA_NOTIFICATION.BITMAP_DESTROY),
                    1, <<gPartId, 0, 0, 0>>),
             r, FfaNotificationResult(r))
        \/ \E Flags \in {<<\h0001, 0, 0, 0>>} :
             SingleExchange("FfaNotificationBind",
               [DestinationId |-> DestinationId, Flags |-> Flags,
                NotificationBitmap |-> SampleBitmap],
               Request5(ARM_FID_FFA_NOTIFICATION.BIND,
                        <<gPartId, DestinationId, 0, 0>>, Flags),
               r, FfaNotificationResult(r))
        \/ SingleExchange("FfaNotificationUnbind",
             [DestinationId |-> DestinationId,
              NotificationBitmap |-> SampleBitmap],
             Request5(ARM_FID_FFA_NOTIFICATION.UNBIND,
                      <<gPartId, DestinationId, 0, 0>>, Zero64),
             r, FfaNotificationResult(r))

-----------------------------------------------------------------------------
(* Discovery Service.  An EFI_FFA_PART_INFO_DESC is 24 bytes, three        *)
(* registers: PartitionId, ExecContextCountOrProxyPartitionId and          *)
(* PartitionProps in the first, PartitionUuid in the other two.            *)

DescWords == 3

\* Descriptors one response holds: words 3 .. 17
DescPerResponse == (ArgCount - 3) \div DescWords

\* The 24 bytes at (UINTN)&Res.Arg3 + Index * sizeof (EFI_FFA_PART_INFO_DESC);
\* past the end of the vector the bytes read are not the response's.
DescAt(Res, Index) ==
  IF Index < DescPerResponse
  THEN [PartitionId      |-> Arg(Res, 3 + DescWords * Index)[1],
        ExecContextCount |-> Arg(Res, 3 + DescWords * Index)[2],
        PartitionProps   |-> SubSeq(Arg(Res, 3 + DescWords * Index), 3, 4),
        PartitionUuid    |-> GuidAt(Res, 4 + DescWords * Index)]
  ELSE [PartitionId |-> -1, ExecContextCount |-> -1, PartitionProps |-> <<-1, -1>>,
        PartitionUuid |-> NullGuid]

\* What the caller's buffer holds before the call
StaleDesc ==
  [PartitionId |-> \hEEEE, ExecContextCount |-> \hEEEE,
   PartitionProps |-> <<\hEEEE, \hEEEE>>,
   PartitionUuid |-> <<\hEEEE, \hEEEE, \hEEEE, \hEEEE, \hEEEE, \hEEEE, \hEEEE, \hEEEE>>]

\* A UINT32 result of INT arithmetic on UINT16 operands, -65536 <= d < 2^31
U32Of(d) ==
  IF d >= 0 THEN <<d % 65536, d \div 65536, 0, 0>>
            ELSE <<d % 65536, \hFFFF, 0, 0>>

\* for (Index = 0; Index < Count; Index++): copy descriptor Index, then
\* FfaPrepareGuid ((EFI_GUID *)PartDesc->PartitionUuid)
RECURSIVE CopyDescriptors(_, _, _, _)
CopyDescriptors(Buf, Res, Index, Count) ==
  IF Index >= Count
  THEN Buf
  ELSE LET Copied   == [Buf EXCEPT ![Index + 1] = DescAt(Res, Index)]
           Prepared == [Copied EXCEPT ![1].PartitionUuid = FfaPrepareGuid(@)]
       IN  CopyDescriptors(Prepared, Res, Index + 1, Count)

\* Fault injection: (StartIndex << 16) | TagValue in Arg3
FfaPartitionInfoGetRegsRequestSwapped(a) ==
  LET ServiceGuidMangled ==
        FfaPrepareGuid(IF a.ServiceGuid = NULL THEN NullGuid ELSE a.ServiceGuid)
      TagValue == IF a.TagGiven THEN a.Tag ELSE 0
      Header == SetArg(ZeroArgs, 0, ARM_FID_FFA_PARTITION_INFO_GET_REGS)
  IN  SetArg(PutGuid(Header, 1, ServiceGuidMangled), 3,
             <<TagValue, a.StartIndex, 0, 0>>)

\* Request.Arg0, the identifier at Arg1, (TagValue << 16) | StartIndex in Arg3
FfaPartitionInfoGetRegsRequest(a) ==
  LET ServiceGuidMangled ==
        FfaPrepareGuid(IF a.ServiceGuid = NULL THEN NullGuid ELSE a.ServiceGuid)
      TagValue == IF a.TagGiven THEN a.Tag ELSE 0
      Header == SetArg(ZeroArgs, 0, ARM_FID_FFA_PARTITION_INFO_GET_REGS)
  IN  SetArg(PutGuid(Header, 1, ServiceGuidMangled), 3,
             <<a.StartIndex, TagValue, 0, 0>>)

\* Fault injection: the capacity error reported without the count written
FfaPartitionInfoGetRegsResultNoCount(a, Buf, Res) ==
  LET Metadata     == Arg(Res, 2)
      CurrentIndex == Shr16(Metadata)[1]
      Count        == CurrentIndex - a.StartIndex + 1
      Untouched(s) == [status |-> s, Tag |-> a.Tag,
                       PartDescCount |-> U32Of(a.PartDescCount), PartDesc |-> Buf]
  IN  IF Arg(Res, 0) = ARM_FID_FFA_ERROR
      THEN Untouched(FfaStatusToEfiStatus(Arg(Res, 2)))
      ELSE IF Count < 0 \/ a.PartDescCount < Count
      THEN Untouched("EFI_BUFFER_TOO_SMALL")
      ELSE [status        |-> "EFI_SUCCESS",
            Tag           |-> IF a.TagGiven THEN Metadata[3] ELSE a.Tag,
            PartDescCount |-> U32Of(Count),
            PartDesc      |-> CopyDescriptors(Buf, Res, 0, Count)]

\* The statements of FfaPartitionInfoGetRegs after the exchange.  Buf is the
\* caller's buffer of a.PartDescCount descriptors.
FfaPartitionInfoGetRegsResult(a, Buf, Res) ==
  LET Metadata     == Arg(Res, 2)
      CurrentIndex == Shr16(Metadata)[1]
      Count        == CurrentIndex - a.StartIndex + 1
      Untouched(s) == [status |-> s, Tag |-> a.Tag,
                       PartDescCount |-> U32Of(a.PartDescCount), PartDesc |-> Buf]
  IN  IF Arg(Res, 0) = ARM_FID_FFA_ERROR
      THEN Untouched(FfaStatusToEfiStatus(Arg(Res, 2)))
      ELSE IF Count < 0 \/ a.PartDescCount < Count
      THEN [Untouched("EFI_BUFFER_TOO_SMALL") EXCEPT !.PartDescCount = U32Of(Count)]
      ELSE [status        |-> "EFI_SUCCESS",
            Tag           |-> IF a.TagGiven THEN Metadata[3] ELSE a.Tag,
            PartDescCount |-> U32Of(Count),
            PartDesc      |-> CopyDescriptors(Buf, Res, 0, Count)]

-----------------------------------------------------------------------------
(* The remote side of discovery: a partition manager whose table holds N   *)
(* partitions and that answers FFA_PARTITION_INFO_GET_REGS as the protocol *)
(* lays down: with the matching descriptors from the start index on, as    *)
(* many as one response holds, the index of the last descriptor of the     *)
(* response in bits 16..31 of word 2, the index of the last matching       *)
(* descriptor in bits 0..15, its tag in bits 32..47 and the descriptor     *)
(* size in bits 48..55.                                                    *)

RemoteTag == \h0007

\* The identifier of partition i as the remote side puts it on the wire.
\* Partition 0 offers the service SampleGuid names.
PartWireUuid(i) ==
  IF i = 0
  THEN <<\h62A4, \h17B8, \h4FAF, \h1806, \h089A, \h86B3, \h3861, \h5835>>
  ELSE <<\h1100 + i, \h2200, \h3300 + i, \h4400, \h5566, \h7788, \h99AA, \hBB00 + i>>

\* Table indices of the partitions that match the identifier of the request
RemoteMatches(Req, N) ==
  SelectSeq([i \in 1 .. N |-> i - 1],
            LAMBDA i : GuidAt(Req, 1) = NullGuid \/ GuidAt(Req, 1) = PartWireUuid(i))

RemotePartitionInfo(Req, N) ==
  LET Matches    == RemoteMatches(Req, N)
      StartIndex == Arg(Req, 3)[1]
      LastIndex  == Len(Matches) - 1
      Reached    == IF StartIndex + DescPerResponse - 1 < LastIndex
                    THEN StartIndex + DescPerResponse - 1
                    ELSE LastIndex
      Word(i)    ==
        LET k == (i - 3) \div DescWords
            p == Matches[StartIndex + k + 1]
        IN  CASE (i - 3) % DescWords = 0 -> <<\h8001 + p, 1, 3, 0>>
              [] (i - 3) % DescWords = 1 -> SubSeq(PartWireUuid(p), 1, 4)
              [] OTHER                   -> SubSeq(PartWireUuid(p), 5, 8)
  IN  IF StartIndex > LastIndex
      THEN ErrorResponse(ARM_FFA_RET_INVALID_PARAMETERS)
      ELSE [j \in 1 .. ArgCount |->
              CASE j = 1 -> ARM_FID_FFA_SUCCESS_AARCH64
                [] j = 3 -> <<LastIndex, Reached, RemoteTag, DescWords * 8>>
                [] j >= 4 /\ (j - 4) \div DescWords <= Reached - StartIndex
                          -> Word(j - 1)
                [] OTHER  -> Zero64]

\* Responses of a remote side that does not keep to the protocol: word 2
\* names 0 or DescPerResponse as the index reached, whatever the start index
\* of the request, and a tag that is not the caller's
StrayPartitionInfo ==
  {SetArg(PatternResponse(ARM_FID_FFA_SUCCESS_AARCH64, 1), 2,
          <<DescPerResponse, CurrentIndex, RemoteTag + 2, DescWords * 8>>) :
     CurrentIndex \in {0, DescPerResponse}}

DiscoveryInputs ==
  [ServiceGuid : {NULL, SampleGuid}, TagGiven : BOOLEAN,
   Tag : {RemoteTag}, StartIndex : 0 .. 2, PartDescCount : 0 .. MaxCapacity,
   PartDescGiven : {TRUE}, RemoteCount : 0 .. MaxParts,
   Retry : {FALSE}]

\* The call with inputs a against the response Res
FfaPartitionInfoGetRegsCall(a, Res) ==
  LET Req == FfaPartitionInfoGetRegsRequest(a)
      Buf == [i \in 1 .. a.PartDescCount |-> StaleDesc]
  IN  Exchanged("FfaPartitionInfoGetRegs", a, Req, Res,
                [ret    |-> FfaPartitionInfoGetRegsResult(a, Buf, Res),
                 assert |-> FALSE])

FfaPartitionInfoGetRegs ==
  /\ pc = "idle"
  /\ \E a \in DiscoveryInputs :
       \E Res \in {RemotePartitionInfo(FfaPartitionInfoGetRegsRequest(a),
                                       a.RemoteCount),
                   ErrorResponse(ARM_FFA_RET_BUSY)} \cup StrayPartitionInfo :
         FfaPartitionInfoGetRegsCall(a, Res)

\* Fault injection: a null buffer is taken for a buffer of no capacity
FfaPartitionInfoGetRegsNullQueries ==
  \E a \in DiscoveryInputs :
    /\ pc = "idle"
    /\ a.RemoteCount = 0
    /\ op' = "FfaPartitionInfoGetRegs"
    /\ args' = [a EXCEPT !.PartDescGiven = FALSE]
    /\ ret' = [status |-> "EFI_BUFFER_TOO_SMALL",
               Tag |-> a.Tag, PartDescCount |-> U32Of(1),
               PartDesc |-> <<>>]
    /\ trace' = <<>>
    /\ Request' = ZeroArgs
    /\ Result' = ZeroArgs
    /\ Message' = MessageOf(Zero64)
    /\ assertFailed' = FALSE
    /\ pc' = "returned"
    /\ UNCHANGED statics

\* if (PartDesc == NULL) return EFI_INVALID_PARAMETER: nothing is exchanged,
\* so the remote side's table plays no part (RemoteCount is left 0)
FfaPartitionInfoGetRegsNull ==
  \E a \in DiscoveryInputs :
    /\ pc = "idle"
    /\ a.RemoteCount = 0
    /\ op' = "FfaPartitionInfoGetRegs"
    /\ args' = [a EXCEPT !.PartDescGiven = FALSE]
    /\ ret' = [status |-> "EFI_INVALID_PARAMETER",
               Tag |-> a.Tag, PartDescCount |-> U32Of(a.PartDescCount),
               PartDesc |-> <<>>]
    /\ trace' = <<>>
    /\ Request' = ZeroArgs
    /\ Result' = ZeroArgs
    /\ Message' = MessageOf(Zero64)
    /\ assertFailed' = FALSE
    /\ pc' = "returned"
    /\ UNCHANGED statics

\* The caller that was told EFI_BUFFER_TOO_SMALL calls again with a buffer of
\* the count it was given; the remote side's table is as it was.
FfaPartitionInfoGetRegsRetry ==
  /\ pc = "returned"
  /\ op = "FfaPartitionInfoGetRegs"
  /\ ret.status = "EFI_BUFFER_TOO_SMALL"
  /\ ~args.Retry
  /\ Result = RemotePartitionInfo(Request, args.RemoteCount)
  /\ ret.PartDescCount[2] = 0
  /\ ret.PartDescCount[1] <= MaxCapacity
  /\ LET a == [args EXCEPT !.PartDescCount = ret.PartDescCount[1], !.Retry = TRUE]
     IN  \E Res \in {RemotePartitionInfo(FfaPartitionInfoGetRegsRequest(a),
                                         a.RemoteCount),
                     ErrorResponse(ARM_FFA_RET_BUSY)} :
           FfaPartitionInfoGetRegsCall(a, Res)

-----------------------------------------------------------------------------
(* The pure functions, applied to inputs of the caller's choice. *)

\* An operation that exchanges nothing and returns out
LocalCall(name, a, out) ==
  /\ pc = "idle"
  /\ op' = name
  /\ args' = a
  /\ ret' = out
  /\ trace' = <<>>
  /\ Request' = ZeroArgs
  /\ Result' = ZeroArgs
  /\ Message' = MessageOf(Zero64)
  /\ assertFailed' = FALSE
  /\ pc' = "returned"
  /\ UNCHANGED statics

\* A caller prepares an identifier and restores it with a second call, with
\* either copy of the function.
PrepareAndRestoreGuid ==
  \E g \in GuidInputs \cup {NullGuid, SampleGuid} :
    LocalCall("FfaPrepareGuid", [Guid |-> g],
              [Guid        |-> FfaPrepareGuid(g),
               status      |-> "void",
               Restored    |-> FfaPrepareGuid(FfaPrepareGuid(g)),
               TpmGuid     |-> Tpm2FfaPrepareGuid(g),
               TpmRestored |-> Tpm2FfaPrepareGuid(Tpm2FfaPrepareGuid(g))])

\* A message is packed into a zeroed request and the request unpacked into
\* a message object of the caller's.
PackAndUnpack ==
  \E Fid \in DirectFids, Src \in EndpointIds, Dst \in EndpointIds,
     Guid \in {NullGuid, SampleGuid}, p \in Patterns, Stale \in StaleMessages :
    LET m      == MessageWith(Fid, Src, Dst, Guid, p)
        Packed == FfaPackDirectMessage(ZeroArgs, m)
    IN  LocalCall("FfaPackDirectMessage", [Message |-> m, Stale |-> Stale],
                  [Request  |-> Packed.Request,
                   Message  |-> Packed.Message,
                   status   |-> "void",
                   Unpacked |-> FfaUnpackDirectMessage(Packed.Request, Stale)])

-----------------------------------------------------------------------------
(* TPM service client (Tpm2DeviceLibFfa).  The client does not call the    *)
(* library above: every exchange it makes goes through its own conduit,    *)
(* ArmCallFfaConduit, one SMC (FfaConduitSmc.c) or SVC (FfaConduitSvc.c)   *)
(* per call.  Its two cached identifiers are UINT32 objects, two halfwords. *)

ARM_FID_FFA_ID_GET == <<\h0069, \h8400, 0, 0>>

\* The function ids and status codes of the TPM service (Guid/Tpm2ServiceFfa.h),
\* TPM2_FFA_<field>, and TPM_SERVICE_FEATURE_SUPPORT_NOTIFICATION
TPM2_FFA ==
  [GET_INTERFACE_VERSION        |-> <<\h0001, \h0F00, 0, 0>>,
   GET_FEATURE_INFO             |-> <<\h0101, \h0F00, 0, 0>>,
   START                        |-> <<\h0201, \h0F00, 0, 0>>,
   REGISTER_FOR_NOTIFICATION    |-> <<\h0301, \h0F00, 0, 0>>,
   UNREGISTER_FROM_NOTIFICATION |-> <<\h0401, \h0F00, 0, 0>>,
   FINISH_NOTIFIED              |-> <<\h0501, \h0F00, 0, 0>>,
   FEATURE_SUPPORT_NOTIFICATION |-> <<\h0000, \hFEA7, 0, 0>>,
   SUCCESS_OK                   |-> <<\h0001, \h0500, 0, 0>>,
   SUCCESS_OK_RESULTS_RETURNED  |-> <<\h0002, \h0500, 0, 0>>,
   ERROR_NOFUNC                 |-> <<\h0001, \h8E00, 0, 0>>,
   ERROR_NOTSUP                 |-> <<\h0002, \h8E00, 0, 0>>,
   ERROR_INVARG                 |-> <<\h0005, \h8E00, 0, 0>>,
   ERROR_INV_CRB_CTRL_DATA      |-> <<\h0006, \h8E00, 0, 0>>,
   ERROR_ALREADY                |-> <<\h0009, \h8E00, 0, 0>>,
   ERROR_DENIED                 |-> <<\h000A, \h8E00, 0, 0>>,
   ERROR_NOMEM                  |-> <<\h000B, \h8E00, 0, 0>>]

\* The switch is on the UINTN argument: all 64 bits are compared
TranslateFfaReturnStatus(FfaReturnStatus) ==
  CASE FfaReturnStatus = ARM_FFA_RET_SUCCESS            -> "EFI_SUCCESS"
    [] FfaReturnStatus = ARM_FFA_RET_NOT_SUPPORTED      -> "EFI_UNSUPPORTED"
    [] FfaReturnStatus = ARM_FFA_RET_INVALID_PARAMETERS -> "EFI_INVALID_PARAMETER"
    [] FfaReturnStatus = ARM_FFA_RET_NO_MEMORY          -> "EFI_BUFFER_TOO_SMALL"
    [] FfaReturnStatus = ARM_FFA_RET_BUSY               -> "EFI_WRITE_PROTECTED"
    [] FfaReturnStatus = ARM_FFA_RET_INTERRUPTED        -> "EFI_MEDIA_CHANGED"
    [] FfaReturnStatus = ARM_FFA_RET_DENIED             -> "EFI_ACCESS_DENIED"
    [] FfaReturnStatus = ARM_FFA_RET_RETRY              -> "EFI_LOAD_ERROR"
    [] FfaReturnStatus = ARM_FFA_RET_ABORTED            -> "EFI_ABORTED"
    [] FfaReturnStatus = ARM_FFA_RET_NODATA             -> "EFI_NOT_FOUND"
    [] FfaReturnStatus = ARM_FFA_RET_NOT_READY          -> "EFI_NOT_READY"
    [] OTHER                                            -> "EFI_DEVICE_ERROR"

\* Fault injection: the service codebook without its last case
TranslateTpmReturnStatusShort(TpmReturnStatus) ==
  CASE TpmReturnStatus = TPM2_FFA.SUCCESS_OK                  -> "EFI_SUCCESS"
    [] TpmReturnStatus = TPM2_FFA.SUCCESS_OK_RESULTS_RETURNED -> "EFI_SUCCESS"
    [] TpmReturnStatus = TPM2_FFA.ERROR_NOFUNC                -> "EFI_NOT_FOUND"
    [] TpmReturnStatus = TPM2_FFA.ERROR_NOTSUP                -> "EFI_UNSUPPORTED"
    [] TpmReturnStatus = TPM2_FFA.ERROR_INVARG                -> "EFI_INVALID_PARAMETER"
    [] TpmReturnStatus = TPM2_FFA.ERROR_INV_CRB_CTRL_DATA     -> "EFI_COMPROMISED_DATA"
    [] TpmReturnStatus = TPM2_FFA.ERROR_ALREADY               -> "EFI_ALREADY_STARTED"
    [] TpmReturnStatus = TPM2_FFA.ERROR_DENIED                -> "EFI_ACCESS_DENIED"
    [] OTHER                                                  -> "EFI_DEVICE_ERROR"

TranslateTpmReturnStatus(TpmReturnStatus) ==
  CASE TpmReturnStatus = TPM2_FFA.SUCCESS_OK                  -> "EFI_SUCCESS"
    [] TpmReturnStatus = TPM2_FFA.SUCCESS_OK_RESULTS_RETURNED -> "EFI_SUCCESS"
    [] TpmReturnStatus = TPM2_FFA.ERROR_NOFUNC                -> "EFI_NOT_FOUND"
    [] TpmReturnStatus = TPM2_FFA.ERROR_NOTSUP                -> "EFI_UNSUPPORTED"
    [] TpmReturnStatus = TPM2_FFA.ERROR_INVARG                -> "EFI_INVALID_PARAMETER"
    [] TpmReturnStatus = TPM2_FFA.ERROR_INV_CRB_CTRL_DATA     -> "EFI_COMPROMISED_DATA"
    [] TpmReturnStatus = TPM2_FFA.ERROR_ALREADY               -> "EFI_ALREADY_STARTED"
    [] TpmReturnStatus = TPM2_FFA.ERROR_DENIED                -> "EFI_ACCESS_DENIED"
    [] TpmReturnStatus = TPM2_FFA.ERROR_NOMEM                 -> "EFI_OUT_OF_RESOURCES"
    [] OTHER                                                  -> "EFI_DEVICE_ERROR"

EFI_ERROR(Status) == Status # "EFI_SUCCESS"

\* FFA_CONDUIT_ARGS: Arg0 .. Arg7
ConduitCount == 8

\* ZeroMem (&FfaConduitArgs, sizeof (FFA_CONDUIT_ARGS))
ZeroConduitArgs == [i \in 1 .. ConduitCount |-> Zero64]

\* SmcArgs of ArmCallFfaConduit as the remote side gets it: zeroed, then
\* filled with the eight words of Args
SmcArgsOf(Args) ==
  [i \in 1 .. ArgCount |-> IF i <= ConduitCount THEN Args[i] ELSE Zero64]

\* The exchange of ArmCallFfaConduit: the remote side puts Res in place of
\* SmcArgs
ConduitExchange(Args, Res) == <<ReqEvent(SmcArgsOf(Args)), RespEvent(Res)>>

\* Fault injection: the response copied back without a look at its word 0
ArmCallFfaConduitUnchecked(Args, Res) ==
  [status |-> "EFI_SUCCESS", Args |-> SubSeq(Res, 1, ConduitCount)]

\* What ArmCallFfaConduit returns and leaves in *Args
ArmCallFfaConduit(Args, Res) ==
  IF Arg(Res, 0) = ARM_FID_FFA_ERROR
  THEN [status |-> TranslateFfaReturnStatus(Arg(Res, 2)), Args |-> Args]
  ELSE [status |-> "EFI_SUCCESS", Args |-> SubSeq(Res, 1, ConduitCount)]

\* Fault injection: an identifier taken for unresolved whatever it holds
UnresolvedAlways(Id) == TRUE

\* mMyId == MAX_UINT32, mFfaTpm2PartitionId == MAX_UINT32
Unresolved(Id) == Id = MAX_UINT32

\* Fault injection: a refused who-am-I request leaves identifier 0 behind
GetMyIdClears(Id, Res) ==
  LET Args == SetArg(ZeroConduitArgs, 0, ARM_FID_FFA_ID_GET)
      c    == ArmCallFfaConduit(Args, Res)
  IN  IF ~Unresolved(Id)
      THEN [status |-> "EFI_SUCCESS", Id |-> Id, events |-> <<>>]
      ELSE IF EFI_ERROR(c.status)
      THEN [status |-> c.status, Id |-> <<0, 0>>,
            events |-> ConduitExchange(Args, Res)]
      ELSE [status |-> "EFI_SUCCESS", Id |-> <<Arg(c.Args, 2)[1], 0>>,
            events |-> ConduitExchange(Args, Res)]

\* GetMyId ((UINT16 *)&mMyId) with mMyId = Id: the status returned, mMyId
\* afterwards and the exchange made.  *PartitionId is the low half of mMyId;
\* the assignment that follows it widens that half to the whole object.
GetMyId(Id, Res) ==
  LET Args == SetArg(ZeroConduitArgs, 0, ARM_FID_FFA_ID_GET)
      c    == ArmCallFfaConduit(Args, Res)
  IN  IF ~Unresolved(Id)
      THEN [status |-> "EFI_SUCCESS", Id |-> Id, events |-> <<>>]
      ELSE IF EFI_ERROR(c.status)
      THEN [status |-> c.status, Id |-> Id, events |-> ConduitExchange(Args, Res)]
      ELSE [status |-> "EFI_SUCCESS", Id |-> <<Arg(c.Args, 2)[1], 0>>,
            events |-> ConduitExchange(Args, Res)]

\* The discovery request of GetTpmSerivcePartitionId, for the service
\* identifier gEfiTpm2ServiceFfaGuid (SampleGuid here)
TpmServiceInfoRequest ==
  PutGuid(SetArg(ZeroConduitArgs, 0, ARM_FID_FFA_PARTITION_INFO_GET_REGS),
          1, Tpm2FfaPrepareGuid(SampleGuid))

\* GetTpmSerivcePartitionId (&mFfaTpm2PartitionId) with
\* mFfaTpm2PartitionId = Id: LastIndex is bits 0..15 and CurrentIndex bits
\* 16..31 of Arg2, TpmPartInfo->PartitionId the UINT16 at &Arg3.
GetTpmSerivcePartitionId(Id, Res) ==
  LET Args         == TpmServiceInfoRequest
      c            == ArmCallFfaConduit(Args, Res)
      LastIndex    == Arg(c.Args, 2)[1]
      CurrentIndex == Arg(c.Args, 2)[2]
  IN  IF ~Unresolved(Id)
      THEN [status |-> "EFI_SUCCESS", Id |-> Id, events |-> <<>>]
      ELSE IF EFI_ERROR(c.status)
      THEN [status |-> c.status, Id |-> Id, events |-> ConduitExchange(Args, Res)]
      ELSE IF CurrentIndex # 0 \/ LastIndex # 0
      THEN [status |-> "EFI_DEVICE_ERROR", Id |-> Id,
            events |-> ConduitExchange(Args, Res)]
      ELSE [status |-> "EFI_SUCCESS", Id |-> <<Arg(c.Args, 3)[1], 0>>,
            events |-> ConduitExchange(Args, Res)]

\* Tpm2ServiceFuncCallReq2 (FfaConduitArgs) with the cached identifiers
\* MyId and TpmId; r1, r2 and r3 are the remote side's answers to the
\* who-am-I, the discovery and the direct request, for the exchanges made.
Tpm2ServiceFuncCallReq2(FfaConduitArgs, MyId, TpmId, r1, r2, r3) ==
  LET Me  == IF Unresolved(MyId) THEN GetMyId(MyId, r1)
             ELSE [status |-> "EFI_SUCCESS", Id |-> MyId, events |-> <<>>]
      Svc == IF Unresolved(TpmId) THEN GetTpmSerivcePartitionId(TpmId, r2)
             ELSE [status |-> "EFI_SUCCESS", Id |-> TpmId, events |-> <<>>]
      Header == [FfaConduitArgs EXCEPT
                   ![1] = ARM_FID_FFA_MSG_SEND_DIRECT_REQ2,
                   ![2] = <<Svc.Id[1], BitOr(Me.Id[1], Svc.Id[2]), 0, 0>>]
      Req == PutGuid(Header, 2, Tpm2FfaPrepareGuid(SampleGuid))
      c   == ArmCallFfaConduit(Req, r3)
  IN  IF EFI_ERROR(Me.status)
      THEN [mMyId |-> Me.Id, mFfaTpm2PartitionId |-> TpmId, status |-> Me.status,
            Args |-> FfaConduitArgs, events |-> Me.events]
      ELSE IF EFI_ERROR(Svc.status)
      THEN [mMyId |-> Me.Id, mFfaTpm2PartitionId |-> Svc.Id,
            status |-> Svc.status,
            Args |-> FfaConduitArgs, events |-> Me.events \o Svc.events]
      ELSE [mMyId |-> Me.Id,
            mFfaTpm2PartitionId |-> Svc.Id,
            status |-> IF EFI_ERROR(c.status) THEN c.status
                       ELSE IF Arg(c.Args, 0) # ARM_FID_FFA_MSG_SEND_DIRECT_RESP2
                       THEN "EFI_DEVICE_ERROR"
                       ELSE "EFI_SUCCESS",
            Args |-> c.Args, events |-> Me.events \o Svc.events \o ConduitExchange(Req, r3)]

\* The remote side of the client's who-am-I request: an identifier in bits
\* 0..15 of word 2 below other bits, or a refusal
IdResponses ==
  {PatternResponse(ARM_FID_FFA_SUCCESS_AARCH32, 1),
   ErrorResponse(ARM_FFA_RET_BUSY),
   ErrorResponse(ARM_FFA_RET_SUCCESS)}

MaxMatches == 2

\* The remote side of the client's discovery: a partition manager with M
\* partitions that offer the TPM service, answering as RemotePartitionInfo
\* does
RemoteServiceInfo(Req, M) ==
  LET Word(j) ==
        LET k == (j - 4) \div DescWords
        IN  CASE (j - 4) % DescWords = 0 -> <<\h8001 + k, 1, 3, 0>>
              [] (j - 4) % DescWords = 1 -> SubSeq(PartWireUuid(0), 1, 4)
              [] OTHER                   -> SubSeq(PartWireUuid(0), 5, 8)
  IN  IF M = 0 \/ GuidAt(Req, 1) # PartWireUuid(0)
      THEN ErrorResponse(ARM_FFA_RET_INVALID_PARAMETERS)
      ELSE [j \in 1 .. ArgCount |->
              CASE j = 1 -> ARM_FID_FFA_SUCCESS_AARCH64
                [] j = 3 -> <<M - 1, M - 1, RemoteTag, DescWords * 8>>
                [] j >= 4 /\ (j - 4) \div DescWords < M -> Word(j)
                [] OTHER  -> Zero64]

Tpm2StatusCodes ==
  {TPM2_FFA.SUCCESS_OK, TPM2_FFA.SUCCESS_OK_RESULTS_RETURNED,
   TPM2_FFA.ERROR_NOFUNC, TPM2_FFA.ERROR_NOTSUP, TPM2_FFA.ERROR_INVARG,
   TPM2_FFA.ERROR_INV_CRB_CTRL_DATA, TPM2_FFA.ERROR_ALREADY,
   TPM2_FFA.ERROR_DENIED, TPM2_FFA.ERROR_NOMEM}

\* Status words neither codebook names: bit 32 set, a service success code
\* that is not defined, the protocol code -11
UndefinedCodes ==
  {<<0, 0, 1, 0>>, <<\h0003, \h0500, 0, 0>>, <<\hFFF5, \hFFFF, 0, 0>>}

\* The remote side of the client's direct request: the extended response
\* with a status in word 4 (one of the service's, one of the protocol's, an
\* undefined one), an error response (with a protocol code, with a service
\* code in word 2), an interrupt, a plain success
ServiceResponses ==
  {SetArg(PatternResponse(ARM_FID_FFA_MSG_SEND_DIRECT_RESP2, 1), 4, c) :
     c \in Tpm2StatusCodes \cup {<<\h0003, \h0500, 0, 0>>, ARM_FFA_RET_BUSY}}
  \cup {ErrorResponse(c) :
          c \in {ARM_FFA_RET_BUSY, ARM_FFA_RET_DENIED, ARM_FFA_RET_NO_MEMORY,
                 ARM_FFA_RET_SUCCESS, TPM2_FFA.ERROR_DENIED}}
  \cup {PatternResponse(ARM_FID_FFA_INTERRUPT, 1),
        PatternResponse(ARM_FID_FFA_SUCCESS_AARCH32, 1)}

\* The calls of the six client operations: the name, the inputs (In) and
\* FfaConduitArgs as the operation fills it before Tpm2ServiceFuncCallReq2
Tpm2Calls ==
  {[name |-> "Tpm2GetInterfaceVersion", Args |-> SetArg(ZeroConduitArgs, 4, TPM2_FFA.GET_INTERFACE_VERSION),
    In |-> <<>>],
   [name |-> "Tpm2GetFeatureInfo", Args |-> SetArg(SetArg(ZeroConduitArgs, 4, TPM2_FFA.GET_FEATURE_INFO),
                    5, TPM2_FFA.FEATURE_SUPPORT_NOTIFICATION),
    In |-> <<>>],
   [name |-> "Tpm2UnregisterNotification", Args |-> SetArg(ZeroConduitArgs, 4, TPM2_FFA.UNREGISTER_FROM_NOTIFICATION),
    In |-> <<>>],
   [name |-> "Tpm2FinishNotified", Args |-> SetArg(ZeroConduitArgs, 4, TPM2_FFA.FINISH_NOTIFIED),
    In |-> <<>>]}
  \cup
  {[name |-> "Tpm2ServiceStart", Args |-> SetArg(SetArg(SetArg(ZeroConduitArgs, 4, TPM2_FFA.START),
                           5, <<FuncQualifier[1] % 256, 0, 0, 0>>),
                    6, <<LocalityQualifier[1] % 256, 0, 0, 0>>),
    In |-> <<FuncQualifier, LocalityQualifier>>] :
     FuncQualifier \in {Zero64, <<\h0101, 0, 0, 1>>},
     LocalityQualifier \in {<<\h0003, 0, 0, 0>>}}
  \cup
  {[name |-> "Tpm2RegisterNotification",
    Args |-> SetArg(SetArg(SetArg(ZeroConduitArgs, 4,
                                  TPM2_FFA.REGISTER_FOR_NOTIFICATION),
                           5, <<vCpuId, NotificationTypeQualifier, 0, 0>>),
                    6, <<NotificationId[1] % 256, 0, 0, 0>>),
    In   |-> <<NotificationTypeQualifier, vCpuId, NotificationId>>] :
     NotificationTypeQualifier \in {0, 1}, vCpuId \in {\h0002},
     NotificationId \in {<<\h0105, 0, 0, 0>>}}

\* One client operation, from its call to its return: up to three exchanges
\* (who-am-I and discovery only while the identifier is unresolved), then the
\* service codebook on word 4 of what Tpm2ServiceFuncCallReq2 left in
\* FfaConduitArgs.  Only Tpm2GetInterfaceVersion writes an output, *Version,
\* and only on success; Tpm2GetFeatureInfo leaves *FeatureInfo alone.
Tpm2ServiceCall ==
  /\ pc = "idle"
  /\ \E o \in Tpm2Calls, Matches \in 0 .. MaxMatches, r1 \in IdResponses,
        r3 \in ServiceResponses :
       \E r2 \in {RemoteServiceInfo(SmcArgsOf(TpmServiceInfoRequest), Matches),
                  ErrorResponse(ARM_FFA_RET_BUSY)} :
         LET c      == Tpm2ServiceFuncCallReq2(o.Args, mMyId, mFfaTpm2PartitionId,
                                               r1, r2, r3)
             Status == IF EFI_ERROR(c.status) THEN c.status
                       ELSE TranslateTpmReturnStatus(Arg(c.Args, 4))
         IN  /\ op' = o.name
             /\ args' = [name |-> o.name, Matches |-> Matches, Args |-> o.Args,
                         In |-> o.In]
             /\ ret' = [status  |-> Status,
                        Version |-> IF o.name = "Tpm2GetInterfaceVersion"
                                       /\ ~EFI_ERROR(Status)
                                    THEN Lo32(Arg(c.Args, 5))
                                    ELSE Lo32(PatWord(3, 5)),
                        FeatureInfo |-> Lo32(PatWord(3, 5))]
             /\ mMyId' = c.mMyId
             /\ mFfaTpm2PartitionId' = c.mFfaTpm2PartitionId
             /\ trace' = c.events
             /\ Request' = c.events[Len(c.events) - 1].val
             /\ Result' = c.events[Len(c.events)].val
             /\ Message' = MessageOf(Zero64)
             /\ assertFailed' = FALSE
             /\ pc' = "returned"
             /\ UNCHANGED <<gPartId, buffers>>

\* ArmCallFfaConduit called on its own: ret.Args is the caller's vector
\* after the call, Result what the remote side returned
FfaConduitCall ==
  \E Args \in {SetArg(ZeroConduitArgs, 0, ARM_FID_FFA_WAIT),
               SetArg([i \in 1 .. ConduitCount |-> PatWord(2, i - 1)], 0,
                      ARM_FID_FFA_WAIT)},
     r \in IdResponses \cup ServiceResponses :
    SingleExchange("ArmCallFfaConduit", [Args |-> Args], SmcArgsOf(Args), r,
                   [ret |-> ArmCallFfaConduit(Args, r), assert |-> FALSE])

\* ARM_FID_FFA_VERSION and the version the client requires,
\* ARM_FFA_MAJOR_VERSION.ARM_FFA_MINOR_VERSION.  The major version is read
\* with ARM_FFA_MAJOR_VERSION_SHIFT = 16 (Shr16) and the minor version with
\* ARM_FFA_MINOR_VERSION_MASK = 0xFFFF (the first halfword).
ARM_FFA_VERSION ==
  [FID |-> <<\h0063, \h8400, 0, 0>>, MAJOR |-> 1, MINOR |-> 2]

\* FfaConduitArgs as VerifyFfaVersion fills it
VersionRequest ==
  SetArg(SetArg(ZeroConduitArgs, 0, ARM_FFA_VERSION.FID), 1,
         <<ARM_FFA_VERSION.MINOR, ARM_FFA_VERSION.MAJOR, 0, 0>>)

\* Fault injection: the minor version has to be the required one
VerifyFfaVersionExact(Res) ==
  LET c == ArmCallFfaConduit(VersionRequest, Res)
      Arg0 == Arg(c.Args, 0)
  IN  IF EFI_ERROR(c.status)
      THEN c.status
      ELSE IF \/ Shr16(Arg0) # <<ARM_FFA_VERSION.MAJOR, 0, 0, 0>>
              \/ Arg0[1] # ARM_FFA_VERSION.MINOR
           THEN "EFI_UNSUPPORTED"
           ELSE "EFI_SUCCESS"

\* The status VerifyFfaVersion returns when the remote side answers Res
VerifyFfaVersion(Res) ==
  LET c == ArmCallFfaConduit(VersionRequest, Res)
      Arg0 == Arg(c.Args, 0)
  IN  IF EFI_ERROR(c.status)
      THEN c.status
      ELSE IF \/ Shr16(Arg0) # <<ARM_FFA_VERSION.MAJOR, 0, 0, 0>>
              \/ Arg0[1] < ARM_FFA_VERSION.MINOR
           THEN "EFI_UNSUPPORTED"
           ELSE "EFI_SUCCESS"

\* What the remote side can leave in the registers for FFA_VERSION: the
\* versions 1.2, 1.3, 1.1, 1.0, 2.2, 2.0 and 0.2, the 32-bit and the 64-bit
\* value -1, version 1.2 with bit 31 set, version 1.2 with bit 32 set, and
\* error responses
VersionResponses ==
  {PatternResponse(w, 1) :
     w \in {<<2, 1, 0, 0>>, <<3, 1, 0, 0>>, <<1, 1, 0, 0>>, <<0, 1, 0, 0>>,
            <<2, 2, 0, 0>>, <<0, 2, 0, 0>>, <<2, 0, 0, 0>>,
            <<\hFFFF, \hFFFF, 0, 0>>, <<\hFFFF, \hFFFF, \hFFFF, \hFFFF>>,
            <<2, \h8001, 0, 0>>, <<2, 1, 1, 0>>}}
  \cup {ErrorResponse(c) :
          c \in {ARM_FFA_RET_NOT_SUPPORTED, ARM_FFA_RET_BUSY,
                 ARM_FFA_RET_SUCCESS, <<\h0003, \h0500, 0, 0>>}}

VerifyFfaVersionCall ==
  \E r \in VersionResponses :
    SingleExchange("VerifyFfaVersion", [Args |-> VersionRequest],
                   SmcArgsOf(VersionRequest), r,
                   [ret |-> [status |-> VerifyFfaVersion(r)], assert |-> FALSE])

\* The two codebooks applied to one status word
TranslateReturnStatus ==
  \E Code \in StatusCodes \cup Tpm2StatusCodes \cup UndefinedCodes :
    LocalCall("TranslateReturnStatus", [Code |-> Code],
              [Ffa |-> TranslateFfaReturnStatus(Code),
               Tpm |-> TranslateTpmReturnStatus(Code)])

ClientNext ==
  \/ Tpm2ServiceCall
  \/ FfaConduitCall
  \/ VerifyFfaVersionCall
  \/ TranslateReturnStatus
  \/ CallerProceeds

ClientSpec == Init /\ [][ClientNext]_vars

-----------------------------------------------------------------------------

Next ==
  \/ FfaMessageWait
  \/ FfaMessageWaitInterrupt
  \/ FfaMessageWaitReturn
  \/ FfaMessageSendDirectReq2
  \/ FfaMessageSendDirectReq2Interrupt
  \/ FfaMessageSendDirectReq2Return
  \/ FfaMessageSendDirectResp
  \/ FfaMessageSendDirectRespInterrupt
  \/ FfaMessageSendDirectRespReturn
  \/ ArmCallSxc
  \/ CallerProceeds
  \/ FfaMemDonate
  \/ FfaMemLend
  \/ FfaMemShare
  \/ FfaMemRetrieveReq
  \/ FfaMemRelinquish
  \/ FfaMemReclaim
  \/ FfaMemRxTx
  \/ FfaMemReclaimLent
  \/ FfaNotification
  \/ FfaPartitionInfoGetRegs
  \/ FfaPartitionInfoGetRegsNull
  \/ FfaPartitionInfoGetRegsRetry
  \/ PrepareAndRestoreGuid
  \/ PackAndUnpack

Spec == Init /\ [][Next]_vars

\* The processor keeps executing a call that is not blocked, and the remote
\* side answers every request it is handed (with at most MaxInterrupts
\* interrupted responses to one call).
Fairness ==
  /\ WF_vars(ArmCallSxc)
  /\ WF_vars(FfaMessageWaitInterrupt)
  /\ WF_vars(FfaMessageWaitReturn)
  /\ WF_vars(FfaMessageSendDirectReq2Interrupt)
  /\ WF_vars(FfaMessageSendDirectReq2Return)
  /\ WF_vars(FfaMessageSendDirectRespInterrupt)
  /\ WF_vars(FfaMessageSendDirectRespReturn)

FairSpec == Init /\ [][Next]_vars /\ Fairness

-----------------------------------------------------------------------------
(* Properties *)

EngineOps ==
  {"FfaMessageWait", "FfaMessageSendDirectReq2", "FfaMessageSendDirectResp"}

HandleOps == {"FfaMemDonate", "FfaMemLend", "FfaMemShare"}

MemOps == HandleOps \cup {"FfaMemRetrieveReq", "FfaMemRelinquish", "FfaMemReclaim"}

\* The call of one of the operations ops is back in its caller
Returned(ops) == pc = "returned" /\ op \in ops

\* Positions of the interrupted responses in the trace
Interrupted ==
  {i \in EventsOf(trace, "response") : Arg(trace[i].val, 0) = ARM_FID_FFA_INTERRUPT}

\* The function ids an operation unpacks a message from
UnpackedIds(o) ==
  IF o = "FfaMessageSendDirectReq2"
  THEN {ARM_FID_FFA_MSG_SEND_DIRECT_RESP2}
  ELSE {ARM_FID_FFA_MSG_SEND_DIRECT_REQ_AARCH32,
        ARM_FID_FFA_MSG_SEND_DIRECT_REQ_AARCH64,
        ARM_FID_FFA_MSG_SEND_DIRECT_REQ2}

\* The function ids an operation expects of a response that is no error
ExpectedIds(o) ==
  CASE o \in EngineOps -> UnpackedIds(o) \cup {ARM_FID_FFA_SUCCESS_AARCH32}
    [] o = "FfaMemRetrieveReq" -> {ARM_FID_FFA_MEM_RETRIEVE_RESP}
    [] OTHER -> {ARM_FID_FFA_SUCCESS_AARCH32}

\* C1: when a call of FfaMessageWait, FfaMessageSendDirectReq2 or
\* FfaMessageSendDirectResp returns after k interrupted responses, the
\* interrupt handler has run exactly k times, each time right after an
\* interrupted response and with the low 32 bits of that response's word 2;
\* each run is followed by one request whose word 0 is FFA_WAIT and whose
\* other words are zero, and that request by one response; and what the call
\* returns is read from the last response: the translated status of an error
\* response, and the header and payload words of a message response.
C1_InterruptLoop ==
  Returned(EngineOps) =>
    LET Handled == EventsOf(trace, "interrupt")
        Final   == trace[Len(trace)].val
    IN  /\ Cardinality(Handled) = Cardinality(Interrupted)
        /\ Cardinality(EventsOf(trace, "request")) = 1 + Cardinality(Handled)
        /\ \A i \in Interrupted : i + 1 \in Handled
        /\ \A i \in Handled :
             /\ i - 1 \in Interrupted
             /\ trace[i].val = <<Arg(trace[i - 1].val, 2)[1],
                                 Arg(trace[i - 1].val, 2)[2], 0, 0>>
             /\ trace[i + 1].kind = "request"
             /\ trace[i + 1].val =
                  [s \in 1 .. ArgCount |->
                     IF s = 1 THEN ARM_FID_FFA_WAIT ELSE Zero64]
             /\ trace[i + 2].kind = "response"
        /\ trace[Len(trace)].kind = "response"
        /\ Len(trace) \notin Interrupted
        /\ Result = Final
        /\ Arg(Final, 0) = ARM_FID_FFA_ERROR
             => ret.status = FfaStatusToEfiStatus(Arg(Final, 2))
        /\ Arg(Final, 0) \in UnpackedIds(op)
             => /\ ret.status = "EFI_SUCCESS"
                /\ Message.FunctionId = Arg(Final, 0)
                /\ Message.SourceId = Arg(Final, 1)[2]
                /\ Message.DestinationId = Arg(Final, 1)[1]
                /\ IF Arg(Final, 0) = ARM_FID_FFA_MSG_SEND_DIRECT_REQ_AARCH32
                      \/ Arg(Final, 0) = ARM_FID_FFA_MSG_SEND_DIRECT_REQ_AARCH64
                   THEN \A j \in 1 .. 6 : Message.Arg[j] = Arg(Final, j + 1)
                   ELSE \A j \in 1 .. PayloadCount :
                          Message.Arg[j] = Arg(Final, j + 3)

\* A call of FfaMessageWait has returned a message after two interrupts
\* with different ids.
C1_Witness ==
  /\ Returned({"FfaMessageWait"})
  /\ Cardinality(EventsOf(trace, "interrupt")) = 2
  /\ trace[3].val # trace[7].val
  /\ Arg(Result, 0) = ARM_FID_FFA_MSG_SEND_DIRECT_REQ2
  /\ ret.status = "EFI_SUCCESS"

\* C2: a call of the call engine or of a memory operation whose last
\* response has a function id that is neither the error id nor one the
\* operation expects returns the device error.
C2_UnrecognisedIsDeviceError ==
  (/\ Returned(EngineOps \cup MemOps)
   /\ Arg(Result, 0) # ARM_FID_FFA_ERROR
   /\ Arg(Result, 0) \notin ExpectedIds(op))
    => ret.status = "EFI_DEVICE_ERROR"

\* C3: in a call of the call engine an error response is the last event of
\* the call (no request and no handler run follows it), and the call returns
\* the translation of word 2 of that response.
C3_ErrorEndsCall ==
  op \in EngineOps =>
    \A i \in EventsOf(trace, "response") :
      Arg(trace[i].val, 0) = ARM_FID_FFA_ERROR
        => /\ i = Len(trace)
           /\ pc \in {"check", "returned"}
           /\ pc = "returned"
                => ret.status = FfaStatusToEfiStatus(Arg(trace[i].val, 2))

\* A call of FfaMessageSendDirectResp has returned the translation of the
\* error that followed one interrupt.
C3_Witness ==
  /\ Returned({"FfaMessageSendDirectResp"})
  /\ Arg(Result, 0) = ARM_FID_FFA_ERROR
  /\ Arg(Result, 2) = ARM_FFA_RET_DENIED
  /\ Cardinality(EventsOf(trace, "interrupt")) = 1
  /\ ret.status = "EFI_ACCESS_DENIED"

\* C4: a call of the call engine that is in progress returns in the end,
\* the remote side answering every request and in the end with a response
\* that is no interrupt; and whatever the number of interrupts so far, a call
\* that holds an interrupted response goes on to run the handler and to
\* resume, it never returns from there.
C4_EveryCallReturns ==
  /\ [][(pc = "check" /\ op \in EngineOps
           /\ Arg(Result, 0) = ARM_FID_FFA_INTERRUPT)
          => (pc' = "exchange" /\ Len(trace') = Len(trace) + 2)]_vars
  /\ (pc \in {"exchange", "check"}) ~> (pc = "returned")

\* A call of FfaMessageSendDirectReq2 has returned after as many interrupts
\* as the remote side delivers to one call.
C4_Witness ==
  /\ Returned({"FfaMessageSendDirectReq2"})
  /\ Cardinality(EventsOf(trace, "interrupt")) = MaxInterrupts
  /\ Arg(Result, 0) = ARM_FID_FFA_MSG_SEND_DIRECT_RESP2

\* The call of a function that exchanges nothing is back in its caller
Applied(name) == pc = "returned" /\ op = name

\* C5: FfaPrepareGuid applied twice gives back the identifier it was given,
\* halfword for halfword, for both copies of the function and also where
\* Data2 + Data3 does not fit the 16 bits of the field.
C5_PrepareGuidInvolution ==
  Applied("FfaPrepareGuid") =>
    /\ ret.Restored = args.Guid
    /\ ret.TpmRestored = args.Guid

\* An identifier whose Data2 + Data3 exceeds 16 bits has been prepared, into
\* something else, and restored.
C5_Witness ==
  /\ Applied("FfaPrepareGuid")
  /\ args.Guid[3] + args.Guid[4] > 65535
  /\ args.Guid[3] # args.Guid[4]
  /\ ret.Guid # args.Guid
  /\ ret.Guid[3] = args.Guid[4]
  /\ ret.Restored = args.Guid

\* The payload words of a variant: 6 for the basic ones, 14 for the extended
PayloadOf(Fid) == IF Fid \in BasicFids THEN 1 .. 6 ELSE 1 .. PayloadCount

\* C6: unpacking the packed form of a message m of a basic or an extended
\* variant gives m back: function id, source, destination, the service
\* identifier of an extended variant, and every payload word of the variant.
C6_RoundTrip ==
  Applied("FfaPackDirectMessage") =>
    LET m == args.Message
        u == ret.Unpacked
    IN  /\ u.FunctionId = m.FunctionId
        /\ u.SourceId = m.SourceId
        /\ u.DestinationId = m.DestinationId
        /\ m.FunctionId \notin BasicFids => u.ServiceGuid = m.ServiceGuid
        /\ \A j \in PayloadOf(m.FunctionId) : u.Arg[j] = m.Arg[j]

\* C7: FfaPackDirectMessage puts the function id in slot 0 and
\* (source << 16) | destination in slot 1; the 6 payload words of a basic
\* variant in slots 2..7; for an extended variant the prepared service
\* identifier in slots 2 and 3 and the 14 payload words in slots 4..17; and
\* it leaves the caller's message as it was.
C7_PackLayout ==
  Applied("FfaPackDirectMessage") =>
    LET m == args.Message
        r == ret.Request
        g == m.ServiceGuid
    IN  /\ Arg(r, 0) = m.FunctionId
        /\ Arg(r, 1) = <<m.DestinationId, m.SourceId, 0, 0>>
        /\ ret.Message = m
        /\ IF m.FunctionId \in BasicFids
           THEN \A j \in 1 .. 6 : Arg(r, j + 1) = m.Arg[j]
           ELSE /\ Arg(r, 2) = <<g[1], g[2], g[4], g[3]>>
                /\ Arg(r, 3) = <<SwapBytes16(g[6]), SwapBytes16(g[5]),
                                 SwapBytes16(g[8]), SwapBytes16(g[7])>>
                /\ \A j \in 1 .. PayloadCount : Arg(r, j + 3) = m.Arg[j]

\* An extended message with a service identifier that preparing changes and
\* with a source above 0x7FFF has been packed.
C7_Witness ==
  /\ Applied("FfaPackDirectMessage")
  /\ args.Message.FunctionId = ARM_FID_FFA_MSG_SEND_DIRECT_REQ2
  /\ args.Message.ServiceGuid = SampleGuid
  /\ args.Message.SourceId = 65535
  /\ GuidAt(ret.Request, 2) # SampleGuid

\* A discovery call has an answer that is no error, made by the remote side
\* from its table
Discovered ==
  /\ pc = "returned"
  /\ op = "FfaPartitionInfoGetRegs"
  /\ args.PartDescGiven
  /\ Arg(Result, 0) # ARM_FID_FFA_ERROR
  /\ Result = RemotePartitionInfo(Request, args.RemoteCount)

\* The descriptors the remote side holds for the identifier of the request
Matching == Len(RemoteMatches(Request, args.RemoteCount))

\* The descriptors the response carries: from the start index of the request
\* to the current index of word 2
Carried == Shr16(Arg(Result, 2))[1] - args.StartIndex + 1

\* The fields of descriptor i of the response other than its UUID
PlainFields(d) == <<d.PartitionId, d.ExecContextCount, d.PartitionProps>>

\* C8 as the specification has it: with a capacity below the N matching
\* descriptors the call returns EFI_BUFFER_TOO_SMALL, *PartDescCount = N and
\* an untouched buffer, and the call that follows with capacity >= N returns
\* EFI_SUCCESS and N descriptors.
C8_RequiredCountIsN ==
  Discovered =>
    /\ args.PartDescCount < Matching
         => /\ ret.status = "EFI_BUFFER_TOO_SMALL"
            /\ ret.PartDescCount = <<Matching, 0, 0, 0>>
            /\ \A i \in 1 .. args.PartDescCount : ret.PartDesc[i] = StaleDesc
    /\ (args.Retry /\ args.PartDescCount >= Matching)
         => /\ ret.status = "EFI_SUCCESS"
            /\ ret.PartDescCount = <<Matching, 0, 0, 0>>

\* C8: with Count the number of descriptors the response carries (the
\* matching descriptors from the start index on, at most DescPerResponse of
\* them; all N when the start index is 0 and N <= DescPerResponse), a
\* capacity below Count gives EFI_BUFFER_TOO_SMALL, *PartDescCount = Count
\* and an untouched buffer; a capacity of Count or more gives EFI_SUCCESS,
\* *PartDescCount = Count and the partition id, execution context count and
\* properties of the Count descriptors in order; and the call that follows the
\* capacity error with the capacity it reported succeeds.
C8_RequiredCountIsCarried ==
  Discovered =>
    /\ Carried = IF Matching - args.StartIndex < DescPerResponse
                 THEN Matching - args.StartIndex ELSE DescPerResponse
    /\ (args.StartIndex = 0 /\ Matching <= DescPerResponse) => Carried = Matching
    /\ args.PartDescCount < Carried
         => /\ ret.status = "EFI_BUFFER_TOO_SMALL"
            /\ ret.PartDescCount = <<Carried, 0, 0, 0>>
            /\ \A i \in 1 .. args.PartDescCount : ret.PartDesc[i] = StaleDesc
    /\ args.PartDescCount >= Carried
         => /\ ret.status = "EFI_SUCCESS"
            /\ ret.PartDescCount = <<Carried, 0, 0, 0>>
            /\ \A i \in 1 .. Carried :
                 PlainFields(ret.PartDesc[i]) = PlainFields(DescAt(Result, i - 1))
    /\ args.Retry => /\ ret.status = "EFI_SUCCESS"
                     /\ args.PartDescCount = Carried

\* One matching descriptor, start index 0: the call with capacity 0 was told
\* 1, and the call that followed with capacity 1 has returned the descriptor.
C8_Witness ==
  /\ Discovered
  /\ args.Retry
  /\ args.StartIndex = 0
  /\ Matching = 1
  /\ args.PartDescCount = 1
  /\ ret.status = "EFI_SUCCESS"
  /\ ret.PartDescCount = <<1, 0, 0, 0>>
  /\ ret.PartDesc[1].PartitionId = DescAt(Result, 0).PartitionId

\* C9: after a successful discovery call the UUID of every descriptor
\* written is FfaPrepareGuid, applied once, of the UUID of the descriptor of
\* the same index in the response.
C9_EveryUuidPrepared ==
  (Discovered /\ ret.status = "EFI_SUCCESS") =>
    \A i \in 1 .. Carried :
      ret.PartDesc[i].PartitionUuid
        = FfaPrepareGuid(DescAt(Result, i - 1).PartitionUuid)

\* C10: the handle a successful donate, lend or share returns has word 2 of
\* the response as its low 32 bits and the low 32 bits of word 3 as its high
\* 32 bits, whatever 64-bit values the two words hold.
C10_HandleHalves ==
  (Returned(HandleOps) /\ Arg(Result, 0) = ARM_FID_FFA_SUCCESS_AARCH32) =>
    ret.Handle = <<Arg(Result, 2)[1], Arg(Result, 2)[2],
                   Arg(Result, 3)[1], Arg(Result, 3)[2]>>

RxTxOps ==
  {"FfaMemDonateRxTx", "FfaMemLendRxTx", "FfaMemShareRxTx", "FfaMemRetrieveReqRxTx"}

\* The operations that give out a handle, and those that retrieve
HandleGivers == HandleOps \cup {"FfaMemDonateRxTx", "FfaMemLendRxTx", "FfaMemShareRxTx"}

Retrievers == {"FfaMemRetrieveReq", "FfaMemRetrieveReqRxTx"}

\* C11: when the response to FfaMemDonate, FfaMemLend, FfaMemShare or one of
\* their RxTx variants has the error function id, the handle written is 0
\* and the status returned is the translation of word 2 of the response; for
\* FfaMemRetrieveReq and its RxTx variant both response lengths written are
\* 0 and the status is the same translation.
C11_ErrorZeroesOutputs ==
  /\ (Returned(HandleGivers) /\ Arg(Result, 0) = ARM_FID_FFA_ERROR)
       => /\ ret.Handle = Zero64
          /\ ret.status = FfaStatusToEfiStatus(Arg(Result, 2))
  /\ (Returned(Retrievers) /\ Arg(Result, 0) = ARM_FID_FFA_ERROR)
       => /\ ret.RespTotalLength = Zero64
          /\ ret.RespFragmentLength = Zero64
          /\ ret.status = FfaStatusToEfiStatus(Arg(Result, 2))

\* A share through the communication buffer was refused: word 2 of the error
\* response is DENIED while word 3, where a handle would be, is not zero.
C11_Witness ==
  /\ Returned({"FfaMemShareRxTx"})
  /\ Arg(Result, 0) = ARM_FID_FFA_ERROR
  /\ Arg(Result, 2) = ARM_FFA_RET_DENIED
  /\ Arg(Result, 3) # Zero64
  /\ ret.Handle = Zero64
  /\ ret.status = "EFI_ACCESS_DENIED"

\* C12: a reclaim that follows a lend the remote side answered with
\* FFA_SUCCESS, made with the handle the lend returned, names the pair of
\* words the remote side issued and returns EFI_SUCCESS; made with a value
\* the remote side never issued, it does not return EFI_SUCCESS.
C12_HandleRoundTrip ==
  (Returned({"FfaMemReclaim"}) /\ "Issued" \in DOMAIN args) =>
    /\ args.Handle = args.Lent
         => /\ PresentedHandle(Request) = args.Issued
            /\ ret.status = "EFI_SUCCESS"
    /\ args.Handle = ForgedHandle => ret.status # "EFI_SUCCESS"

\* The 64-bit and the 32-bit function id of a memory operation
Fid64Of(o) ==
  CASE o \in {"FfaMemDonate", "FfaMemDonateRxTx"} -> ARM_FID_FFA_MEM_DONATE_AARCH64
    [] o \in {"FfaMemLend", "FfaMemLendRxTx"}     -> ARM_FID_FFA_MEM_LEND_AARCH64
    [] o \in {"FfaMemShare", "FfaMemShareRxTx"}   -> ARM_FID_FFA_MEM_SHARE_AARCH64
    [] OTHER -> ARM_FID_FFA_MEM_RETRIEVE_REQ_AARCH64

Fid32Of(o) ==
  CASE o \in {"FfaMemDonate", "FfaMemDonateRxTx"} -> ARM_FID_FFA_MEM_DONATE_AARCH32
    [] o \in {"FfaMemLend", "FfaMemLendRxTx"}     -> ARM_FID_FFA_MEM_LEND_AARCH32
    [] o \in {"FfaMemShare", "FfaMemShareRxTx"}   -> ARM_FID_FFA_MEM_SHARE_AARCH32
    [] OTHER -> ARM_FID_FFA_MEM_RETRIEVE_REQ_AARCH32

\* C13: the request of FfaMemDonate, FfaMemLend, FfaMemShare and
\* FfaMemRetrieveReq has the 64-bit function id in word 0 when the buffer
\* address given is not null and the 32-bit one when it is null; the request
\* of an RxTx variant has the 32-bit function id, buffer address 0 and page
\* count 0; words 1..4 are the total length, the fragment length, the buffer
\* address and the page count as given, and the other words are 0.
C13_RequestWords ==
  Returned(HandleGivers \cup Retrievers) =>
    LET Addr  == IF op \in RxTxOps THEN Zero64 ELSE args.BufferAddr
        Pages == IF op \in RxTxOps THEN Zero64 ELSE args.PageCount
    IN  /\ Addr # Zero64 => Arg(Request, 0) = Fid64Of(op)
        /\ Addr = Zero64 => Arg(Request, 0) = Fid32Of(op)
        /\ Arg(Request, 1) = args.TotalLength
        /\ Arg(Request, 2) = args.FragmentLength
        /\ Arg(Request, 3) = Addr
        /\ Arg(Request, 4) = Pages
        /\ \A i \in 5 .. ArgCount - 1 : Arg(Request, i) = Zero64
        /\ trace[1] = ReqEvent(Request)

\* A lend with no buffer address, a page count that is not 0 and a total
\* length of 0xFFFFFFFF has sent the 32-bit function id.
C13_Witness ==
  /\ Returned({"FfaMemLend"})
  /\ args.BufferAddr = Zero64
  /\ args.PageCount # Zero64
  /\ args.TotalLength = <<65535, 65535, 0, 0>>
  /\ Arg(Request, 0) = ARM_FID_FFA_MEM_LEND_AARCH32
  /\ Arg(Request, 4) = args.PageCount

-----------------------------------------------------------------------------
(* TPM service client                                                      *)

ClientOps ==
  {"Tpm2GetInterfaceVersion", "Tpm2GetFeatureInfo", "Tpm2ServiceStart",
   "Tpm2RegisterNotification", "Tpm2UnregisterNotification",
   "Tpm2FinishNotified"}

\* Positions in the trace of the requests with function id Fid
Asked(t, Fid) == {i \in EventsOf(t, "request") : Arg(t[i].val, 0) = Fid}

\* C14: once a cached identifier of the client (its own, the TPM
\* partition's) holds something other than the unresolved marker, no step
\* changes it, and no later operation issues the request that resolves it
\* (who-am-I for its own, discovery for the TPM partition's); with both
\* resolved, the direct request of a later operation carries them in word 1.
C14_CachedIdsWriteOnce ==
  [][/\ mMyId # MAX_UINT32
          => /\ mMyId' = mMyId
             /\ Asked(trace', ARM_FID_FFA_ID_GET) = {}
     /\ mFfaTpm2PartitionId # MAX_UINT32
          => /\ mFfaTpm2PartitionId' = mFfaTpm2PartitionId
             /\ Asked(trace', ARM_FID_FFA_PARTITION_INFO_GET_REGS) = {}
     /\ mMyId # MAX_UINT32 /\ mFfaTpm2PartitionId # MAX_UINT32
          => \A i \in Asked(trace', ARM_FID_FFA_MSG_SEND_DIRECT_REQ2) :
               Arg(trace'[i].val, 1)
                 = <<mFfaTpm2PartitionId[1], mMyId[1], 0, 0>>]_vars

\* A client operation succeeded on the direct request alone, with both
\* identifiers as an earlier operation resolved them.
C14_Witness ==
  /\ Returned(ClientOps)
  /\ ret.status = "EFI_SUCCESS"
  /\ Len(trace) = 2
  /\ Asked(trace, ARM_FID_FFA_MSG_SEND_DIRECT_REQ2) = {1}
  /\ mMyId = <<\h0102, 0>>
  /\ mFfaTpm2PartitionId = <<\h8001, 0>>

\* Positions in the trace of the discovery requests that the partition
\* manager with args.Matches matching partitions answered
Enumerated ==
  {i \in Asked(trace, ARM_FID_FFA_PARTITION_INFO_GET_REGS) :
     trace[i + 1].val = RemoteServiceInfo(trace[i].val, args.Matches)}

\* C15: when a client operation enumerates the partitions that offer the
\* TPM service, the TPM partition's identifier is resolved only if there is
\* exactly one match; with zero matches or more than one the operation
\* returns a device error and the identifier stays unresolved.
C15_ExactlyOneMatch ==
  (Returned(ClientOps) /\ Enumerated # {})
    => /\ mFfaTpm2PartitionId # MAX_UINT32 => args.Matches = 1
       /\ args.Matches # 1
            => /\ ret.status = "EFI_DEVICE_ERROR"
               /\ mFfaTpm2PartitionId = MAX_UINT32

\* The client operations that got as far as their direct request; Result is
\* the response to it
Requested ==
  Returned(ClientOps) /\ Arg(Request, 0) = ARM_FID_FFA_MSG_SEND_DIRECT_REQ2

\* *Version after a client operation that returned Status on the response
\* in Result: only Tpm2GetInterfaceVersion writes it, and only on success
VersionAfter(Status) ==
  IF op = "Tpm2GetInterfaceVersion" /\ Status = "EFI_SUCCESS"
  THEN Lo32(Arg(Result, 5))
  ELSE Lo32(PatWord(3, 5))

\* C16 as stated: in every client operation a response with the error
\* function id yields the protocol codebook's translation of word 2;
\* otherwise a function id other than the extended response's yields a
\* device error; only then is the service codebook applied to word 4, and
\* the result field is written only when that status is success.  Neither
\* codebook is applied to the other layer's code.
C16_ChecksOrdered ==
  Requested
    => /\ ret.status
            = CASE Arg(Result, 0) = ARM_FID_FFA_ERROR
                     -> TranslateFfaReturnStatus(Arg(Result, 2))
                [] Arg(Result, 0) # ARM_FID_FFA_ERROR
                   /\ Arg(Result, 0) # ARM_FID_FFA_MSG_SEND_DIRECT_RESP2
                     -> "EFI_DEVICE_ERROR"
                [] OTHER -> TranslateTpmReturnStatus(Arg(Result, 4))
       /\ ret.Version = VersionAfter(ret.status)

\* C16, amended: as C16, except that an error response whose word 2
\* translates to success is not a success of the operation: the response is
\* not copied back, the function id check fails on the request the client
\* still holds, and the operation returns a device error.
C16_ChecksOrderedAmended ==
  Requested
    => /\ ret.status
            = CASE Arg(Result, 0) = ARM_FID_FFA_ERROR
                   /\ TranslateFfaReturnStatus(Arg(Result, 2)) # "EFI_SUCCESS"
                     -> TranslateFfaReturnStatus(Arg(Result, 2))
                [] Arg(Result, 0) = ARM_FID_FFA_ERROR
                   /\ TranslateFfaReturnStatus(Arg(Result, 2)) = "EFI_SUCCESS"
                     -> "EFI_DEVICE_ERROR"
                [] Arg(Result, 0) # ARM_FID_FFA_ERROR
                   /\ Arg(Result, 0) # ARM_FID_FFA_MSG_SEND_DIRECT_RESP2
                     -> "EFI_DEVICE_ERROR"
                [] OTHER -> TranslateTpmReturnStatus(Arg(Result, 4))
       /\ ret.Version = VersionAfter(ret.status)

\* Tpm2GetInterfaceVersion got an error response whose word 2 is the
\* success code: device error, *Version not written.
C16_Witness ==
  /\ Requested
  /\ op = "Tpm2GetInterfaceVersion"
  /\ Arg(Result, 0) = ARM_FID_FFA_ERROR
  /\ Arg(Result, 2) = ARM_FFA_RET_SUCCESS
  /\ ret.status = "EFI_DEVICE_ERROR"
  /\ ret.Version = Lo32(PatWord(3, 5))

\* C17: a client operation goes through the interrupt loop: when it has
\* returned, every interrupted response in its trace is followed by a run of
\* the interrupt handler, then by a request whose word 0 is FFA_WAIT, then by
\* a response; the handler has run as often as there are interrupted
\* responses, and the operation did not return on an interrupted response.
C17_ClientInterruptLoop ==
  Returned(ClientOps) =>
    /\ Cardinality(EventsOf(trace, "interrupt")) = Cardinality(Interrupted)
    /\ Len(trace) \notin Interrupted
    /\ \A i \in Interrupted :
         /\ i + 3 <= Len(trace)
         /\ trace[i + 1].kind = "interrupt"
         /\ trace[i + 2].kind = "request"
         /\ Arg(trace[i + 2].val, 0) = ARM_FID_FFA_WAIT
         /\ trace[i + 3].kind = "response"

\* The status codes of the two codebooks that are a success
SuccessCodes ==
  {ARM_FFA_RET_SUCCESS, TPM2_FFA.SUCCESS_OK, TPM2_FFA.SUCCESS_OK_RESULTS_RETURNED}

\* C18: in both codebooks every defined status code maps to a result that
\* is not EFI_DEVICE_ERROR, two different defined error codes map to
\* different results, and every other status word maps to EFI_DEVICE_ERROR.
C18_MappingCoverage ==
  Applied("TranslateReturnStatus") =>
    /\ args.Code \in StatusCodes <=> ret.Ffa # "EFI_DEVICE_ERROR"
    /\ args.Code \in Tpm2StatusCodes <=> ret.Tpm # "EFI_DEVICE_ERROR"
    /\ args.Code \in StatusCodes \ SuccessCodes
         => \A d \in StatusCodes \ (SuccessCodes \cup {args.Code}) :
              TranslateFfaReturnStatus(d) # ret.Ffa
    /\ args.Code \in Tpm2StatusCodes \ SuccessCodes
         => \A d \in Tpm2StatusCodes \ (SuccessCodes \cup {args.Code}) :
              TranslateTpmReturnStatus(d) # ret.Tpm

\* The service's no-memory code went through both codebooks: defined in the
\* service's, undefined in the protocol's.
C18_Witness ==
  /\ Applied("TranslateReturnStatus")
  /\ args.Code = TPM2_FFA.ERROR_NOMEM
  /\ ret.Tpm = "EFI_OUT_OF_RESOURCES"
  /\ ret.Ffa = "EFI_DEVICE_ERROR"

\* The error taxonomy of the specification, in the names of EFI_STATUS
ErrorTaxonomy ==
  {"EFI_INVALID_PARAMETER", "EFI_NOT_READY", "EFI_UNSUPPORTED",
   "EFI_ACCESS_DENIED", "EFI_OUT_OF_RESOURCES", "EFI_DEVICE_ERROR",
   "EFI_NOT_FOUND", "EFI_BUFFER_TOO_SMALL", "EFI_ABORTED"}

\* C19: what the protocol codebook returns is EFI_SUCCESS or a member of
\* the error taxonomy; busy translates to EFI_NOT_READY and no memory to
\* EFI_OUT_OF_RESOURCES.
C19_ProtocolTaxonomy ==
  Applied("TranslateReturnStatus") =>
    /\ ret.Ffa \in ErrorTaxonomy \cup {"EFI_SUCCESS"}
    /\ args.Code = ARM_FFA_RET_BUSY => ret.Ffa = "EFI_NOT_READY"
    /\ args.Code = ARM_FFA_RET_NO_MEMORY => ret.Ffa = "EFI_OUT_OF_RESOURCES"

-----------------------------------------------------------------------------
(* Retry policy                                                            *)

NotificationOps ==
  {"FfaNotificationSet", "FfaNotificationGet", "FfaNotificationBitmapCreate",
   "FfaNotificationBitmapDestroy", "FfaNotificationBind", "FfaNotificationUnbind"}

\* The response in Result tells the caller to come back: busy or retry
ToldToComeBack ==
  /\ Arg(Result, 0) = ARM_FID_FFA_ERROR
  /\ Arg(Result, 2) \in {ARM_FFA_RET_BUSY, ARM_FFA_RET_RETRY}

\* C20: no request is issued a second time.  A returned memory-transaction,
\* notification or discovery operation has made exactly one exchange (one
\* request, one response) whatever the response was, discovery without a
\* descriptor buffer none; a call-engine operation has issued one request
\* and one more for every interrupted response, at every point of the call;
\* and when the last response is an error response with busy or retry, that
\* status, translated, is what the caller gets.
C20_NoAutomaticRetry ==
  /\ Returned(MemOps \cup RxTxOps \cup NotificationOps)
       => /\ Len(trace) = 2
          /\ EventsOf(trace, "request") = {1}
          /\ trace[2] = RespEvent(Result)
  /\ Returned({"FfaPartitionInfoGetRegs"})
       => IF args.PartDescGiven
          THEN Len(trace) = 2 /\ EventsOf(trace, "request") = {1}
          ELSE trace = <<>>
  /\ op \in EngineOps
       => Cardinality(EventsOf(trace, "request")) <= 1 + Cardinality(Interrupted)
  /\ Returned(EngineOps)
       => Cardinality(EventsOf(trace, "request")) = 1 + Cardinality(Interrupted)
  /\ (/\ Returned(EngineOps \cup MemOps \cup RxTxOps \cup NotificationOps
                    \cup {"FfaPartitionInfoGetRegs"})
      /\ trace # <<>>
      /\ ToldToComeBack)
       => /\ ret.status = FfaStatusToEfiStatus(Arg(Result, 2))
          /\ ret.status # "EFI_SUCCESS"

\* FfaNotificationBind was answered busy: one exchange, EFI_NOT_READY.
C20_Witness ==
  /\ Returned({"FfaNotificationBind"})
  /\ Arg(Result, 0) = ARM_FID_FFA_ERROR
  /\ Arg(Result, 2) = ARM_FFA_RET_BUSY
  /\ Len(trace) = 2
  /\ ret.status = "EFI_NOT_READY"

-----------------------------------------------------------------------------
(* The register vector after an exchange                                   *)

\* C21: after ArmCallFfaConduit every slot of the caller's vector holds
\* what the remote side returned in that slot, whatever the response, one
\* with the error function id included (as Result does after ArmCallSxc).
C21_VectorOverwritten ==
  Applied("ArmCallFfaConduit") =>
    \A i \in 1 .. ConduitCount : ret.Args[i] = Result[i]

-----------------------------------------------------------------------------
(* Direct messaging, basic variant                                         *)

\* C22: when the peer answers the request of FfaMessageSendDirectReq2 at
\* once with a basic 64-bit direct response, the call returns EFI_SUCCESS
\* and the caller's message has the 64-bit response id as function id and
\* words 2..7 of the response as payload words 0..5.
C22_BasicResponseDecoded ==
  (/\ Returned({"FfaMessageSendDirectReq2"})
   /\ Len(trace) = 2
   /\ Arg(Result, 0) = ARM_FID_FFA_MSG_SEND_DIRECT_RESP_AARCH64)
    => /\ ret.status = "EFI_SUCCESS"
       /\ Message.FunctionId = ARM_FID_FFA_MSG_SEND_DIRECT_RESP_AARCH64
       /\ \A j \in 1 .. 6 : Message.Arg[j] = Arg(Result, j + 1)

-----------------------------------------------------------------------------
(* Identifier preparation, field by field.  An identifier is eight         *)
(* halfwords; its 32-bit field Fk is the halfword pair (2k + 1, 2k + 2),    *)
(* low half first.  F0 is Data1, F1 is Data2 (low) and Data3 (high).        *)

\* SwapBytes32 of the field with low half lo and high half hi
Reversed(lo, hi) == <<SwapBytes16(hi), SwapBytes16(lo)>>

\* C23 as stated: FfaPrepareGuid leaves F0 as it is, exchanges the fields
\* F1 and F2, then reverses the bytes of F2 and of F3.
C23_FieldSwap ==
  Applied("FfaPrepareGuid") =>
    ret.Guid = <<args.Guid[1], args.Guid[2], args.Guid[5], args.Guid[6]>>
               \o Reversed(args.Guid[3], args.Guid[4])
               \o Reversed(args.Guid[7], args.Guid[8])

\* C23, amended: FfaPrepareGuid leaves F0 as it is, exchanges the two
\* 16-bit halves of F1 (Data2 and Data3), and reverses the bytes of F2 and
\* of F3; the arithmetic exchange gives what a direct swap gives for all
\* values of the halves, in both copies of the function.
C23_HalvesOfF1Swapped ==
  Applied("FfaPrepareGuid") =>
    /\ ret.Guid = <<args.Guid[1], args.Guid[2], args.Guid[4], args.Guid[3]>>
                  \o Reversed(args.Guid[5], args.Guid[6])
                  \o Reversed(args.Guid[7], args.Guid[8])
    /\ ret.TpmGuid = ret.Guid

\* An identifier with different halves in each of F1, F2 and F3, and with
\* Data2 + Data3 beyond 16 bits, has been prepared.
C23_Witness ==
  /\ Applied("FfaPrepareGuid")
  /\ args.Guid[3] + args.Guid[4] > 65535
  /\ args.Guid[3] # args.Guid[4]
  /\ SwapBytes16(args.Guid[5]) # SwapBytes16(args.Guid[6])
  /\ args.Guid[7] # args.Guid[8]
  /\ ret.Guid[3] = args.Guid[4]
  /\ ret.Guid[4] = args.Guid[3]
  /\ ret.Guid[5] = SwapBytes16(args.Guid[6])
  /\ ret.Guid[8] = SwapBytes16(args.Guid[7])

-----------------------------------------------------------------------------
(* Notification bitmaps                                                    *)

\* The 64-bit value with the low 32 bits of word i of Res as its low half
\* and the low 32 bits of word i + 1 as its high half
PairAt(Res, i) ==
  <<Arg(Res, i)[1], Arg(Res, i)[2], Arg(Res, i + 1)[1], Arg(Res, i + 1)[2]>>

\* C24: FfaNotificationGet on a response without the error id returns the
\* bitmap whose low half is word 2 and whose high half is word 3 for the
\* partition plane, words 4 and 5 for the virtual-machine plane, words 6
\* and 7 for the hypervisor plane; for any other Flags it returns
\* EFI_UNSUPPORTED with the caller's bitmap as it was, after the exchange.
C24_BitmapFromPlanePair ==
  (Returned({"FfaNotificationGet"}) /\ Arg(Result, 0) # ARM_FID_FFA_ERROR)
    => /\ Len(trace) = 2
       /\ CASE args.Flags = FFA_NOTIFICATIONS_FLAG_BITMAP.SP
                 -> /\ ret.status = "EFI_SUCCESS"
                    /\ ret.NotificationBitmap = PairAt(Result, 2)
            [] args.Flags = FFA_NOTIFICATIONS_FLAG_BITMAP.VM
                 -> /\ ret.status = "EFI_SUCCESS"
                    /\ ret.NotificationBitmap = PairAt(Result, 4)
            [] args.Flags = FFA_NOTIFICATIONS_FLAG_BITMAP.HYP
                 -> /\ ret.status = "EFI_SUCCESS"
                    /\ ret.NotificationBitmap = PairAt(Result, 6)
            [] OTHER
                 -> /\ ret.status = "EFI_UNSUPPORTED"
                    /\ ret.NotificationBitmap = SampleBitmap

-----------------------------------------------------------------------------
(* Outputs of the client operations                                        *)

\* C25: when Tpm2GetInterfaceVersion or Tpm2GetFeatureInfo returns
\* EFI_SUCCESS, its output (*Version, *FeatureInfo) holds the result word of
\* the response, word 5; when it returns an error, the output holds what it
\* held before the call.
C25_OutputDelivered ==
  Returned({"Tpm2GetInterfaceVersion", "Tpm2GetFeatureInfo"}) =>
    LET Output == IF op = "Tpm2GetInterfaceVersion"
                  THEN ret.Version
                  ELSE ret.FeatureInfo
    IN  IF ret.status = "EFI_SUCCESS"
        THEN Output = Lo32(Arg(Result, 5))
        ELSE Output = Lo32(PatWord(3, 5))

-----------------------------------------------------------------------------
(* What a retrieve returns                                                 *)

-----------------------------------------------------------------------------
(* The version check of the client                                         *)

\* The version word of a response: the low 32 bits of its word 0, with the
\* major version in bits 16..31 and the minor version in bits 0..15
MajorOf(Res) == Arg(Res, 0)[2]

MinorOf(Res) == Arg(Res, 0)[1]

\* C27 as stated: VerifyFfaVersion returns the translation of word 2 when
\* the response has the error function id; otherwise it returns EFI_SUCCESS
\* exactly when the version word has the required major version and a minor
\* version at least the required one, and EFI_UNSUPPORTED for every other
\* version word.
C27_VersionExactly ==
  Returned({"VerifyFfaVersion"}) =>
    IF Arg(Result, 0) = ARM_FID_FFA_ERROR
    THEN ret.status = TranslateFfaReturnStatus(Arg(Result, 2))
    ELSE ret.status = IF /\ MajorOf(Result) = ARM_FFA_VERSION.MAJOR
                         /\ MinorOf(Result) >= ARM_FFA_VERSION.MINOR
                      THEN "EFI_SUCCESS"
                      ELSE "EFI_UNSUPPORTED"

\* C27: VerifyFfaVersion returns EFI_SUCCESS exactly when the response does
\* not have the error function id, every bit of its word 0 above bit 15 (up
\* to bit 63) spells the required major version, and bits 0..15 are at least
\* the required minor version.  It returns EFI_UNSUPPORTED for every other
\* response without the error function id and for an error response whose
\* code translates to EFI_SUCCESS, and the translated error for every other
\* error response.
C27_VersionAccepted ==
  Returned({"VerifyFfaVersion"}) =>
    IF Arg(Result, 0) = ARM_FID_FFA_ERROR
    THEN ret.status = IF EFI_ERROR(TranslateFfaReturnStatus(Arg(Result, 2)))
                      THEN TranslateFfaReturnStatus(Arg(Result, 2))
                      ELSE "EFI_UNSUPPORTED"
    ELSE ret.status = IF /\ MajorOf(Result) = ARM_FFA_VERSION.MAJOR
                         /\ Arg(Result, 0)[3] = 0
                         /\ Arg(Result, 0)[4] = 0
                         /\ MinorOf(Result) >= ARM_FFA_VERSION.MINOR
                      THEN "EFI_SUCCESS"
                      ELSE "EFI_UNSUPPORTED"

\* The remote side reports version 1.3, one minor version above the required
\* one, and the check succeeds.
C27_Witness ==
  /\ Returned({"VerifyFfaVersion"})
  /\ MajorOf(Result) = ARM_FFA_VERSION.MAJOR
  /\ MinorOf(Result) > ARM_FFA_VERSION.MINOR
  /\ ret.status = "EFI_SUCCESS"

-----------------------------------------------------------------------------
(* Fragments of a memory transaction                                       *)

\* C28: a donate, lend, share or retrieve whose fragment length is not its
\* total length is always one exchange: the request carries the total length
\* in word 1 and the fragment length in word 2 as the caller gave them, the
\* one response ends the call, and the status is the translation of word 2
\* of an error response and EFI_SUCCESS for every other response.
C28_FragmentLengthPassedThrough ==
  (Returned(HandleGivers \cup Retrievers)
     /\ args.FragmentLength # args.TotalLength)
    => /\ trace = <<ReqEvent(Request), RespEvent(Result)>>
       /\ Arg(Request, 1) = args.TotalLength
       /\ Arg(Request, 2) = args.FragmentLength
       /\ ret.status = IF Arg(Result, 0) = ARM_FID_FFA_ERROR
                       THEN FfaStatusToEfiStatus(Arg(Result, 2))
                       ELSE "EFI_SUCCESS"

\* A donate of 0x40 bytes in a first fragment of 0x20 bytes was answered
\* with FFA_SUCCESS and has returned after that one exchange.
C28_Witness ==
  /\ Returned({"FfaMemDonate"})
  /\ args.TotalLength = <<64, 0, 0, 0>>
  /\ args.FragmentLength = <<32, 0, 0, 0>>
  /\ Arg(Request, 2) = <<32, 0, 0, 0>>
  /\ Arg(Result, 0) = ARM_FID_FFA_SUCCESS_AARCH32
  /\ Len(trace) = 2
  /\ ret.status = "EFI_SUCCESS"

-----------------------------------------------------------------------------
(* The requests of reclaim and relinquish                                  *)

\* C29: the request of FfaMemReclaim has the function id in word 0, bits
\* 0..31 of the handle in word 1, bits 32..63 in word 2, each with its upper
\* 32 bits clear, the flags as given in word 3 and 0 in every other word, so
\* that word 2 shifted left by 32 bits or-ed with word 1 is the handle; the
\* request of FfaMemRelinquish has its function id in word 0 and 0 in every
\* other word.
C29_ReclaimRequestWords ==
  /\ Returned({"FfaMemReclaim"})
       => /\ Arg(Request, 0) = ARM_FID_FFA_MEM_RETRIEVE_RECLAIM
          /\ Arg(Request, 1) = <<args.Handle[1], args.Handle[2], 0, 0>>
          /\ Arg(Request, 2) = <<args.Handle[3], args.Handle[4], 0, 0>>
          /\ Arg(Request, 3) = args.Flags
          /\ \A i \in 4 .. ArgCount - 1 : Arg(Request, i) = Zero64
          /\ Or64(Shl32(Arg(Request, 2)), Arg(Request, 1)) = args.Handle
          /\ trace[1] = ReqEvent(Request)
  /\ Returned({"FfaMemRelinquish"})
       => /\ Arg(Request, 0) = ARM_FID_FFA_MEM_RETRIEVE_RELINQUISH
          /\ \A i \in 1 .. ArgCount - 1 : Arg(Request, i) = Zero64
          /\ trace[1] = ReqEvent(Request)

\* A reclaim of a handle whose two halves differ and are not 0, with flags
\* that are not 0.
C29_Witness ==
  /\ Returned({"FfaMemReclaim"})
  /\ args.Handle[3] # 0
  /\ Arg(Request, 1) # Zero64
  /\ Arg(Request, 2) # Zero64
  /\ Arg(Request, 1) # Arg(Request, 2)
  /\ Arg(Request, 3) = <<1, 0, 0, 0>>

-----------------------------------------------------------------------------
(* The descriptor count of discovery                                       *)

\* C30: in FfaPartitionInfoGetRegs the count computed from word 2 of a
\* response that is no error, index reached - StartIndex + 1, which the call
\* writes to *PartDescCount, is at least 1 and at most DescPerResponse, and
\* every descriptor the copy loop writes was read from words 3..17 of the
\* response.
C30_CountWithinResponse ==
  (Returned({"FfaPartitionInfoGetRegs"}) /\ args.PartDescGiven
     /\ Arg(Result, 0) # ARM_FID_FFA_ERROR)
    => /\ ret.PartDescCount[2] = 0
       /\ ret.PartDescCount[1] >= 1
       /\ ret.PartDescCount[1] <= DescPerResponse
       /\ \A i \in 1 .. Len(ret.PartDesc) :
            ret.PartDesc[i] # DescAt(Result, DescPerResponse)

-----------------------------------------------------------------------------
(* The tag of discovery                                                    *)

\* C31: the request of FfaPartitionInfoGetRegs has the start index in bits
\* 0..15 of word 3 and the caller's tag in bits 16..31, 0 when no tag is
\* given; a caller's tag is bits 32..47 of word 2 of the response after a
\* call that returns EFI_SUCCESS and what it was after every other call; and
\* after an error response *PartDescCount and the descriptor buffer are what
\* they were.
C31_TagCarried ==
  (Returned({"FfaPartitionInfoGetRegs"}) /\ args.PartDescGiven)
    => /\ Arg(Request, 3)
            = <<args.StartIndex, IF args.TagGiven THEN args.Tag ELSE 0, 0, 0>>
       /\ (ret.status = "EFI_SUCCESS" /\ args.TagGiven)
            => ret.Tag = Arg(Result, 2)[3]
       /\ ret.status # "EFI_SUCCESS" => ret.Tag = args.Tag
       /\ Arg(Result, 0) = ARM_FID_FFA_ERROR
            => /\ ret.PartDescCount = <<args.PartDescCount, 0, 0, 0>>
               /\ Len(ret.PartDesc) = args.PartDescCount
               /\ \A i \in 1 .. Len(ret.PartDesc) : ret.PartDesc[i] = StaleDesc

\* A successful call whose response carries a tag that is not the tag the
\* caller gave: the caller's tag is now the tag of the response.
C31_Witness ==
  /\ Returned({"FfaPartitionInfoGetRegs"})
  /\ args.PartDescGiven
  /\ args.TagGiven
  /\ args.StartIndex # 0
  /\ ret.status = "EFI_SUCCESS"
  /\ Arg(Result, 2)[3] # args.Tag
  /\ ret.Tag = Arg(Result, 2)[3]
  /\ Arg(Request, 3) = <<args.StartIndex, args.Tag, 0, 0>>

-----------------------------------------------------------------------------
(* The caller's message after a call of the engine                         *)

\* C33: after a call-engine operation that returns an error, the message
\* object of FfaMessageWait and the response object of
\* FfaMessageSendDirectResp are what they were before the call, and the
\* in/out message of FfaMessageSendDirectReq2 has the 14 payload words the
\* caller gave, with the function id, source, destination and service
\* identifier the operation wrote before the exchange.
C33_ErrorKeepsPayload ==
  (Returned(EngineOps) /\ ret.status # "EFI_SUCCESS")
    => /\ op = "FfaMessageWait" => Message = args.Message
       /\ op = "FfaMessageSendDirectResp" => Message = args.Response
       /\ op = "FfaMessageSendDirectReq2"
            => /\ Message.Arg = args.ImpDefArgs.Arg
               /\ Message.FunctionId = ARM_FID_FFA_MSG_SEND_DIRECT_REQ2
               /\ Message.SourceId = gPartId
               /\ Message.DestinationId = args.DestPartId
               /\ Message.ServiceGuid = IF args.ServiceGuid = NULL
                                        THEN NullGuid ELSE args.ServiceGuid

\* A direct request that was interrupted and then refused: the payload is
\* the caller's, the destination is the one the operation wrote.
C33_Witness ==
  /\ Returned({"FfaMessageSendDirectReq2"})
  /\ ret.status = "EFI_ACCESS_DENIED"
  /\ Interrupted # {}
  /\ args.ImpDefArgs.Arg[1] # Zero64
  /\ Message.Arg = args.ImpDefArgs.Arg
  /\ Message.DestinationId # args.ImpDefArgs.DestinationId

\* C34: a call-engine operation whose last response has the success
\* function id returns EFI_SUCCESS and leaves an output message with the
\* success id as its function id and 0 in source, destination, service
\* identifier and all 14 payload words, whatever the message held before;
\* for FfaMessageSendDirectReq2 that is the message the request was in.
C34_SuccessIdClearsMessage ==
  (Returned(EngineOps) /\ Arg(Result, 0) = ARM_FID_FFA_SUCCESS_AARCH32)
    => /\ ret.status = "EFI_SUCCESS"
       /\ Message.FunctionId = ARM_FID_FFA_SUCCESS_AARCH32
       /\ Message.SourceId = 0
       /\ Message.DestinationId = 0
       /\ Message.ServiceGuid = NullGuid
       /\ \A i \in 1 .. PayloadCount : Message.Arg[i] = Zero64
       /\ ~assertFailed

\* A direct request with a payload that is not 0, answered with FFA_SUCCESS
\* whose words 1..17 are not 0: the payload is gone.
C34_Witness ==
  /\ Returned({"FfaMessageSendDirectReq2"})
  /\ Arg(Result, 0) = ARM_FID_FFA_SUCCESS_AARCH32
  /\ Arg(Result, 4) # Zero64
  /\ args.ImpDefArgs.Arg[1] # Zero64
  /\ args.ServiceGuid # NULL
  /\ Message.Arg[1] = Zero64
  /\ Message.ServiceGuid = NullGuid

-----------------------------------------------------------------------------
(* Failed resolution in the client                                         *)

\* The exchange at position i of the trace was refused: its response has the
\* error function id and a code the protocol codebook makes an error of
Refused(i) ==
  /\ Arg(trace[i + 1].val, 0) = ARM_FID_FFA_ERROR
  /\ EFI_ERROR(TranslateFfaReturnStatus(Arg(trace[i + 1].val, 2)))

\* The discovery at position i of the trace did not yield exactly one match
NotOneMatch(i) ==
  /\ Arg(trace[i + 1].val, 0) # ARM_FID_FFA_ERROR
  /\ Arg(trace[i + 1].val, 2)[1] # 0 \/ Arg(trace[i + 1].val, 2)[2] # 0

-----------------------------------------------------------------------------
(* ArmFfaRxTxMap.c: the Rx/Tx buffer pair.  Addresses, sizes and page      *)
(* counts are natural numbers here (all of them stay far below 2^31); the  *)
(* words of a request are made of them with U32Of.  A call is one step:    *)
(* its exchanges, allocations and frees are the events of its trace.       *)

EFI_PAGE_SIZE == 4096

\* EFI_SIZE_TO_PAGES (Size)
EFI_SIZE_TO_PAGES(Size) ==
  (Size \div EFI_PAGE_SIZE) + (IF Size % EFI_PAGE_SIZE = 0 THEN 0 ELSE 1)

\* The function ids of the buffer registration
ARM_FID_FFA_RXTX ==
  [FEATURES |-> <<\h0064, \h8400, 0, 0>>,
   MAP      |-> <<\h0066, \hC400, 0, 0>>,
   UNMAP    |-> <<\h0067, \h8400, 0, 0>>]

\* The buffer sizes in pages a platform configures
PageCounts == {0, 1, 4, 16, 32}

\* What AllocateAlignedPages may return: NULL, or the base of a free block
\* aligned to 64KB
AllocationResults == {0, 1048576, 2097152}

AllocEvent(b) == [kind |-> "allocate", val |-> U32Of(b)]

FreeEvent(b) == [kind |-> "free", val |-> U32Of(b)]

\* The value of the last event of kind k in t, a zeroed vector if none
LastVal(t, k) ==
  IF EventsOf(t, k) = {}
  THEN ZeroArgs
  ELSE t[CHOOSE i \in EventsOf(t, k) : \A j \in EventsOf(t, k) : j <= i].val

\* IsFfaError (&FfaArgs)
IsFfaError(Res) == Arg(Res, 0) = ARM_FID_FFA_ERROR

\* ArmFfaLibFeatures (Id, InputProperties, &Property1, &Property2): one
\* exchange; the properties are written on success only, so after a failure
\* the caller's variables keep what they held (Uninit when they were never
\* assigned)
ArmFfaLibFeatures(Id, InputProperties, Res, Uninit) ==
  LET Req == SetArg(SetArg(SetArg(ZeroArgs, 0, ARM_FID_FFA_RXTX.FEATURES),
                           1, Id), 2, InputProperties)
  IN IF IsFfaError(Res)
     THEN [Request   |-> Req,
           status    |-> FfaStatusToEfiStatus(Arg(Res, 2)),
           Property1 |-> Uninit,
           Property2 |-> Uninit]
     ELSE [Request   |-> Req,
           status    |-> "EFI_SUCCESS",
           Property1 |-> Arg(Res, 2),
           Property2 |-> Arg(Res, 3)]

\* switch (MinSizeAndAlign & 0x03): the size in bytes of
\* ARM_FFA_BUFFER_MINSIZE_AND_ALIGN_4K (0), _64K (1) and _16K (2); 0 stands
\* for the default branch
MinSizeAndAlignOf(w) ==
  CASE w[1] % 4 = 0 -> 4096
    [] w[1] % 4 = 1 -> 65536
    [] w[1] % 4 = 2 -> 16384
    [] OTHER        -> 0

\* The request of ArmFfaLibRxTxMap for the block at Buffers
RxTxMapRequest(Buffers, MinSizeAndAlign) ==
  SetArg(SetArg(SetArg(SetArg(ZeroArgs,
    0, ARM_FID_FFA_RXTX.MAP),
    1, U32Of(Buffers)),
    2, U32Of(Buffers + PcdFfaTxRxPageCount * EFI_PAGE_SIZE)),
    3, U32Of(PcdFfaTxRxPageCount \div EFI_SIZE_TO_PAGES(MinSizeAndAlign)))

\* The registration as a call leaves it when it changes nothing
Registered ==
  [Pages |-> AllocatedPages, Tx |-> PcdFfaTxBuffer, Rx |-> PcdFfaRxBuffer]

\* Fault injection: a map that registers the Rx buffer at the address of the
\* Tx buffer
RxTxMapResultSameBuffer(Feat, Uninit, Buffers, Res) ==
  LET Features == ArmFfaLibFeatures(ARM_FID_FFA_RXTX.MAP, Zero64, Feat, Uninit)
      Query == <<ReqEvent(Features.Request), RespEvent(Feat)>>
      MinSizeAndAlign == MinSizeAndAlignOf(Features.Property1)
      BufferSize == PcdFfaTxRxPageCount * EFI_PAGE_SIZE
      Req == RxTxMapRequest(Buffers, MinSizeAndAlign)
      Failed(Status, Events) ==
        [status |-> Status, events |-> Events, reg |-> Registered]
  IN
  IF PcdFfaTxBuffer # 0 /\ PcdFfaRxBuffer # 0
  THEN Failed("EFI_ALREADY_STARTED", <<>>)
  ELSE IF EFI_ERROR(Features.status)
  THEN Failed(Features.status, Query)
  ELSE IF MinSizeAndAlign = 0
  THEN Failed("EFI_UNSUPPORTED", Query)
  ELSE IF MinSizeAndAlign > PcdFfaTxRxPageCount * EFI_PAGE_SIZE
  THEN Failed("EFI_INVALID_PARAMETER", Query)
  ELSE IF Buffers = 0
  THEN Failed("EFI_OUT_OF_RESOURCES", Query \o <<AllocEvent(0)>>)
  ELSE IF IsFfaError(Res)
  THEN Failed(FfaStatusToEfiStatus(Arg(Res, 2)),
              Query \o <<AllocEvent(Buffers), ReqEvent(Req), RespEvent(Res),
                         FreeEvent(Buffers)>>)
  ELSE [status |-> "EFI_SUCCESS",
        events |-> Query \o <<AllocEvent(Buffers), ReqEvent(Req), RespEvent(Res)>>,
        reg    |-> [Pages |-> AllocatedPages \cup {Buffers},
                    Tx    |-> Buffers,
                    Rx    |-> Buffers]]

\* Fault injection: a map that registers again over a registered pair
RxTxMapResultAgain(Feat, Uninit, Buffers, Res) ==
  LET Features == ArmFfaLibFeatures(ARM_FID_FFA_RXTX.MAP, Zero64, Feat, Uninit)
      Query == <<ReqEvent(Features.Request), RespEvent(Feat)>>
      MinSizeAndAlign == MinSizeAndAlignOf(Features.Property1)
      BufferSize == PcdFfaTxRxPageCount * EFI_PAGE_SIZE
      Req == RxTxMapRequest(Buffers, MinSizeAndAlign)
      Failed(Status, Events) ==
        [status |-> Status, events |-> Events, reg |-> Registered]
  IN
  IF EFI_ERROR(Features.status)
  THEN Failed(Features.status, Query)
  ELSE IF MinSizeAndAlign = 0
  THEN Failed("EFI_UNSUPPORTED", Query)
  ELSE IF MinSizeAndAlign > PcdFfaTxRxPageCount * EFI_PAGE_SIZE
  THEN Failed("EFI_INVALID_PARAMETER", Query)
  ELSE IF Buffers = 0
  THEN Failed("EFI_OUT_OF_RESOURCES", Query \o <<AllocEvent(0)>>)
  ELSE IF IsFfaError(Res)
  THEN Failed(FfaStatusToEfiStatus(Arg(Res, 2)),
              Query \o <<AllocEvent(Buffers), ReqEvent(Req), RespEvent(Res),
                         FreeEvent(Buffers)>>)
  ELSE [status |-> "EFI_SUCCESS",
        events |-> Query \o <<AllocEvent(Buffers), ReqEvent(Req), RespEvent(Res)>>,
        reg    |-> [Pages |-> AllocatedPages \cup {Buffers},
                    Tx    |-> Buffers,
                    Rx    |-> Buffers + BufferSize]]

\* Fault injection: a map that keeps its pages when the remote side refuses
\* the map request
RxTxMapResultLeaks(Feat, Uninit, Buffers, Res) ==
  LET Features == ArmFfaLibFeatures(ARM_FID_FFA_RXTX.MAP, Zero64, Feat, Uninit)
      Query == <<ReqEvent(Features.Request), RespEvent(Feat)>>
      MinSizeAndAlign == MinSizeAndAlignOf(Features.Property1)
      BufferSize == PcdFfaTxRxPageCount * EFI_PAGE_SIZE
      Req == RxTxMapRequest(Buffers, MinSizeAndAlign)
      Failed(Status, Events) ==
        [status |-> Status, events |-> Events, reg |-> Registered]
  IN
  IF PcdFfaTxBuffer # 0 /\ PcdFfaRxBuffer # 0
  THEN Failed("EFI_ALREADY_STARTED", <<>>)
  ELSE IF EFI_ERROR(Features.status)
  THEN Failed(Features.status, Query)
  ELSE IF MinSizeAndAlign = 0
  THEN Failed("EFI_UNSUPPORTED", Query)
  ELSE IF MinSizeAndAlign > PcdFfaTxRxPageCount * EFI_PAGE_SIZE
  THEN Failed("EFI_INVALID_PARAMETER", Query)
  ELSE IF Buffers = 0
  THEN Failed("EFI_OUT_OF_RESOURCES", Query \o <<AllocEvent(0)>>)
  ELSE IF IsFfaError(Res)
  THEN [status |-> FfaStatusToEfiStatus(Arg(Res, 2)),
        events |-> Query \o <<AllocEvent(Buffers), ReqEvent(Req), RespEvent(Res)>>,
        reg    |-> [Pages |-> AllocatedPages \cup {Buffers},
                    Tx    |-> PcdFfaTxBuffer,
                    Rx    |-> PcdFfaRxBuffer]]
  ELSE [status |-> "EFI_SUCCESS",
        events |-> Query \o <<AllocEvent(Buffers), ReqEvent(Req), RespEvent(Res)>>,
        reg    |-> [Pages |-> AllocatedPages \cup {Buffers},
                    Tx    |-> Buffers,
                    Rx    |-> Buffers + BufferSize]]

\* ArmFfaLibRxTxMap when the feature query is answered Feat, the allocator
\* returns Buffers and the map request is answered Res
RxTxMapResult(Feat, Uninit, Buffers, Res) ==
  LET Features == ArmFfaLibFeatures(ARM_FID_FFA_RXTX.MAP, Zero64, Feat, Uninit)
      Query == <<ReqEvent(Features.Request), RespEvent(Feat)>>
      MinSizeAndAlign == MinSizeAndAlignOf(Features.Property1)
      BufferSize == PcdFfaTxRxPageCount * EFI_PAGE_SIZE
      Req == RxTxMapRequest(Buffers, MinSizeAndAlign)
      Failed(Status, Events) ==
        [status |-> Status, events |-> Events, reg |-> Registered]
  IN
  IF PcdFfaTxBuffer # 0 /\ PcdFfaRxBuffer # 0
  THEN Failed("EFI_ALREADY_STARTED", <<>>)
  ELSE IF EFI_ERROR(Features.status)
  THEN Failed(Features.status, Query)
  ELSE IF MinSizeAndAlign = 0
  THEN Failed("EFI_UNSUPPORTED", Query)
  ELSE IF MinSizeAndAlign > PcdFfaTxRxPageCount * EFI_PAGE_SIZE
  THEN Failed("EFI_INVALID_PARAMETER", Query)
  ELSE IF Buffers = 0
  THEN Failed("EFI_OUT_OF_RESOURCES", Query \o <<AllocEvent(0)>>)
  ELSE IF IsFfaError(Res)
  THEN Failed(FfaStatusToEfiStatus(Arg(Res, 2)),
              Query \o <<AllocEvent(Buffers), ReqEvent(Req), RespEvent(Res),
                         FreeEvent(Buffers)>>)
  ELSE [status |-> "EFI_SUCCESS",
        events |-> Query \o <<AllocEvent(Buffers), ReqEvent(Req), RespEvent(Res)>>,
        reg    |-> [Pages |-> AllocatedPages \cup {Buffers},
                    Tx    |-> Buffers,
                    Rx    |-> Buffers + BufferSize]]

\* The request of ArmFfaLibRxTxUnmap
RxTxUnmapRequest ==
  SetArg(SetArg(ZeroArgs, 0, ARM_FID_FFA_RXTX.UNMAP), 1, <<0, gPartId, 0, 0>>)

\* ArmFfaLibRxTxUnmap when the remote side answers Res
RxTxUnmapResult(Res) ==
  LET Exchange == <<ReqEvent(RxTxUnmapRequest), RespEvent(Res)>>
      Buffers == PcdFfaTxBuffer
  IN
  IF IsFfaError(Res)
  THEN [status |-> FfaStatusToEfiStatus(Arg(Res, 2)),
        events |-> Exchange,
        reg    |-> Registered]
  ELSE [status |-> "EFI_SUCCESS",
        events |-> IF Buffers # 0 THEN Append(Exchange, FreeEvent(Buffers))
                                  ELSE Exchange,
        reg    |-> [Pages |-> IF Buffers # 0 THEN AllocatedPages \ {Buffers}
                                             ELSE AllocatedPages,
                    Tx    |-> 0,
                    Rx    |-> 0]]

OutputNames == {"TxBuffer", "TxBufferSize", "RxBuffer", "RxBufferSize"}

\* ArmFfaLibGetRxTxBuffers; Wanted are the outputs passed non-NULL, written
\* the outputs the call has assigned, each with the value it received
GetRxTxBuffersResult(Wanted) ==
  IF PcdFfaTxBuffer = 0 \/ PcdFfaRxBuffer = 0
  THEN [status  |-> "EFI_NOT_READY",
        written |-> [n \in {} |-> 0]]
  ELSE [status  |-> "EFI_SUCCESS",
        written |-> [n \in Wanted |->
                      CASE n = "TxBuffer" -> PcdFfaTxBuffer
                        [] n = "RxBuffer" -> PcdFfaRxBuffer
                        [] OTHER -> PcdFfaTxRxPageCount * EFI_PAGE_SIZE]]

\* The responses of the remote side to a feature query, a map request and
\* an unmap request
FeaturesResponses ==
  {SetArg(SetArg(ZeroArgs, 0, ARM_FID_FFA_SUCCESS_AARCH32), 2, w) :
     w \in {Zero64, <<1, 0, 0, 0>>, <<2, 0, 0, 0>>, <<3, 0, 0, 0>>,
            <<1, 1, 0, 0>>}}
  \cup {ErrorResponse(c) : c \in {ARM_FFA_RET_NOT_SUPPORTED, ARM_FFA_RET_SUCCESS}}

RxTxResponses ==
  {SetArg(ZeroArgs, 0, ARM_FID_FFA_SUCCESS_AARCH32)}
  \cup {ErrorResponse(c) :
          c \in {ARM_FFA_RET_NO_MEMORY, ARM_FFA_RET_DENIED, ARM_FFA_RET_SUCCESS}}

\* A call, made by a caller that is ready to call, that returns r after the
\* events and leaves the registration reg
LibraryCall(name, a, r, events, reg) ==
  /\ pc = "idle"
  /\ op' = name
  /\ args' = a
  /\ ret' = r
  /\ trace' = events
  /\ Request' = LastVal(events, "request")
  /\ Result' = LastVal(events, "response")
  /\ Message' = MessageOf(Zero64)
  /\ assertFailed' = FALSE
  /\ pc' = "returned"
  /\ PcdFfaTxBuffer' = reg.Tx
  /\ PcdFfaRxBuffer' = reg.Rx
  /\ AllocatedPages' = reg.Pages
  /\ UNCHANGED <<gPartId, mMyId, mFfaTpm2PartitionId, PcdFfaTxRxPageCount>>

ArmFfaLibRxTxMap ==
  /\ pc = "idle"
  /\ \E Feat \in FeaturesResponses, Uninit \in {Zero64, <<3, 0, 0, 0>>},
        Buffers \in AllocationResults \ AllocatedPages, Res \in RxTxResponses :
       LET o == RxTxMapResult(Feat, Uninit, Buffers, Res)
       IN LibraryCall("ArmFfaLibRxTxMap", <<>>, [status |-> o.status],
                      o.events, o.reg)

ArmFfaLibRxTxUnmap ==
  \E Res \in RxTxResponses :
    LET o == RxTxUnmapResult(Res)
    IN LibraryCall("ArmFfaLibRxTxUnmap", <<>>, [status |-> o.status], o.events, o.reg)

ArmFfaLibGetRxTxBuffers ==
  \E Wanted \in SUBSET OutputNames :
    LibraryCall("ArmFfaLibGetRxTxBuffers", [Wanted |-> Wanted],
               GetRxTxBuffersResult(Wanted), <<>>, Registered)

RxTxInit ==
  /\ pc = "idle"
  /\ op = "none"
  /\ args = <<>>
  /\ Request = ZeroArgs
  /\ Result = ZeroArgs
  /\ trace = <<>>
  /\ ret = NoRet
  /\ Message = MessageOf(Zero64)
  /\ assertFailed = FALSE
  /\ gPartId \in {\h8003, \hFFFF}
  /\ mMyId = MAX_UINT32
  /\ mFfaTpm2PartitionId = MAX_UINT32
  /\ PcdFfaTxBuffer = 0
  /\ PcdFfaRxBuffer = 0
  /\ PcdFfaTxRxPageCount \in PageCounts
  /\ AllocatedPages = {}

RxTxNext ==
  \/ ArmFfaLibRxTxMap
  \/ ArmFfaLibRxTxUnmap
  \/ ArmFfaLibGetRxTxBuffers
  \/ CallerProceeds

RxTxSpec == RxTxInit /\ [][RxTxNext]_vars

-----------------------------------------------------------------------------
(* ArmMmuStandaloneMmLib.c: memory permissions.  An attribute word          *)
(* (Attributes, AttributeMask) is the set of the numbers of its set bits;   *)
(* the permission words of the exchanges are registers.                     *)

\* EFI_MEMORY_RP (0x2000), EFI_MEMORY_XP (0x4000), EFI_MEMORY_RO (0x20000)
EFI_MEMORY == [RP |-> 13, XP |-> 14, RO |-> 17]

\* The function ids of the two permission interfaces
ARM_FID_MEM_PERM ==
  [FFA_GET |-> <<\h0088, \hC400, 0, 0>>,
   FFA_SET |-> <<\h0089, \hC400, 0, 0>>,
   MM_GET  |-> <<\h0064, \hC400, 0, 0>>,
   MM_SET  |-> <<\h0065, \hC400, 0, 0>>]

\* ARM_FFA_SET_MEM_ATTR_* and ARM_SPM_MM_SET_MEM_ATTR_*: the two interfaces
\* lay a permission word out alike, the data permission in bits 0..1 and the
\* code permission from bit CODE_PERM_SHIFT
ARM_SET_MEM_ATTR ==
  [DATA_PERM_NO_ACCESS |-> 0,
   DATA_PERM_RW        |-> 1,
   DATA_PERM_RO        |-> 3,
   CODE_PERM_X         |-> 0,
   CODE_PERM_XN        |-> 1,
   CODE_PERM_SHIFT     |-> 2]

\* a & ~b on one halfword
RECURSIVE BitAndNot(_, _)
BitAndNot(a, b) ==
  IF a = 0 THEN 0
  ELSE (IF a % 2 = 1 /\ b % 2 = 0 THEN 1 ELSE 0) + 2 * BitAndNot(a \div 2, b \div 2)

\* ..._SET_MEM_ATTR_MAKE_PERM_REQUEST (d, c), d and c the low halfwords
MAKE_PERM_REQUEST(d, c) ==
  <<(c % 2) * 4 + (d % 4), 0, 0, 0>>

\* The permission word each of the six region functions asks for when the
\* region has the attributes M
PermissionRequest(name, M) ==
  LET CodePermission ==
        ARM_SET_MEM_ATTR.DATA_PERM_NO_ACCESS * 4
  IN
  CASE name = "ArmSetMemoryRegionNoAccess" ->
         <<BitOr(M[1], CodePermission), M[2], 0, 0>>
    [] name = "ArmClearMemoryRegionNoAccess" ->
         <<BitAndNot(M[1], CodePermission), M[2], 0, 0>>
    [] name = "ArmSetMemoryRegionNoExec" ->
         MAKE_PERM_REQUEST(M[1], ARM_SET_MEM_ATTR.CODE_PERM_XN)
    [] name = "ArmClearMemoryRegionNoExec" ->
         MAKE_PERM_REQUEST(M[1], ARM_SET_MEM_ATTR.CODE_PERM_X)
    [] name = "ArmSetMemoryRegionReadOnly" ->
         MAKE_PERM_REQUEST(ARM_SET_MEM_ATTR.DATA_PERM_RO, M[1] \div 4)
    [] name = "ArmClearMemoryRegionReadOnly" ->
         MAKE_PERM_REQUEST(ARM_SET_MEM_ATTR.DATA_PERM_RW, M[1] \div 4)

\* ArmFfaLibVersion (ARM_FFA_MAJOR_VERSION, ARM_FFA_MINOR_VERSION, ...): the
\* request, and the status for the response Res
ArmFfaLibVersion(Res) ==
  [Request |-> SetArg(SetArg(ZeroArgs, 0, ARM_FFA_VERSION.FID), 1,
                      <<ARM_FFA_VERSION.MINOR, ARM_FFA_VERSION.MAJOR, 0, 0>>),
   status  |-> IF Lo32(Arg(Res, 0)) = ARM_FFA_RET_NOT_SUPPORTED
               THEN "EFI_UNSUPPORTED"
               ELSE "EFI_SUCCESS"]

IsFfaMemoryAbiSupported(Res) == ~EFI_ERROR(ArmFfaLibVersion(Res).status)

\* The case labels are ints: a UINTN matches one only when it is the
\* sign-extended value
SpmMmStatusToEfiStatus(SpmMmStatus) ==
  CASE SpmMmStatus = Zero64                             -> "EFI_SUCCESS"
    [] SpmMmStatus = <<\hFFFE, \hFFFF, \hFFFF, \hFFFF>> -> "EFI_INVALID_PARAMETER"
    [] SpmMmStatus = <<\hFFFD, \hFFFF, \hFFFF, \hFFFF>> -> "EFI_ACCESS_DENIED"
    [] SpmMmStatus = <<\hFFFB, \hFFFF, \hFFFF, \hFFFF>> -> "EFI_OUT_OF_RESOURCES"
    [] OTHER                                            -> "EFI_UNSUPPORTED"

\* SendMemoryPermissionRequest when ArmCallSvc leaves Res in SvcArgs; *RetVal
\* is written on success only and holds Uninit otherwise
SendMemoryPermissionRequest(UseFfaAbis, Res, Uninit) ==
  IF UseFfaAbis
  THEN IF IsFfaError(Res)
       THEN [status |-> FfaStatusToEfiStatus(Arg(Res, 2)), RetVal |-> Uninit]
       ELSE [status |-> "EFI_SUCCESS", RetVal |-> Lo32(Arg(Res, 2))]
  ELSE IF Arg(Res, 0)[2] >= 32768
       THEN [status |-> SpmMmStatusToEfiStatus(Arg(Res, 0)), RetVal |-> Uninit]
       ELSE [status |-> "EFI_SUCCESS", RetVal |-> Lo32(Arg(Res, 0))]

GetMemoryPermissions(UseFfaAbis, BaseAddress, Res, Uninit) ==
  LET Fid == IF UseFfaAbis THEN ARM_FID_MEM_PERM.FFA_GET
                           ELSE ARM_FID_MEM_PERM.MM_GET
      Sent == SendMemoryPermissionRequest(UseFfaAbis, Res, Uninit)
  IN [Request          |-> SetArg(SetArg(ZeroArgs, 0, Fid), 1, BaseAddress),
      status           |-> Sent.status,
      MemoryAttributes |-> IF EFI_ERROR(Sent.status) THEN Zero64
                                                     ELSE Sent.RetVal]

RequestMemoryPermissionChange(UseFfaAbis, BaseAddress, Length, Permissions, Res) ==
  LET Fid == IF UseFfaAbis THEN ARM_FID_MEM_PERM.FFA_SET
                           ELSE ARM_FID_MEM_PERM.MM_SET
  IN [Request |-> SetArg(SetArg(SetArg(SetArg(ZeroArgs,
                    0, Fid),
                    1, BaseAddress),
                    2, U32Of(EFI_SIZE_TO_PAGES(Length))),
                    3, Permissions),
      status  |-> SendMemoryPermissionRequest(UseFfaAbis, Res, Zero64).status]

\* One of the six region functions; e holds the responses to its version
\* query, its permission-get and its permission-set request
ArmMemoryRegionStep(name, BaseAddress, Length, e, Uninit) ==
  LET Version == ArmFfaLibVersion(e.Version)
      UseFfaAbis == IsFfaMemoryAbiSupported(e.Version)
      Get == GetMemoryPermissions(UseFfaAbis, BaseAddress, e.Get, Uninit)
      Set == RequestMemoryPermissionChange(UseFfaAbis, BaseAddress, Length,
               PermissionRequest(name, Get.MemoryAttributes), e.Set)
      Queries == <<ReqEvent(Version.Request), RespEvent(e.Version),
                   ReqEvent(Get.Request), RespEvent(e.Get)>>
  IN IF EFI_ERROR(Get.status)
     THEN [status |-> Get.status, events |-> Queries]
     ELSE [status |-> Set.status,
           events |-> Queries \o <<ReqEvent(Set.Request), RespEvent(e.Set)>>]

\* Fault injection: the read-only step taken before the no-access step
StepsForReadOnlyFirst(NeededAttributes) ==
  <<IF EFI_MEMORY.RO \in NeededAttributes THEN "ArmSetMemoryRegionReadOnly"
                                          ELSE "ArmClearMemoryRegionReadOnly",
    IF EFI_MEMORY.RP \in NeededAttributes THEN "ArmSetMemoryRegionNoAccess"
                                          ELSE "ArmClearMemoryRegionNoAccess",
    IF EFI_MEMORY.XP \in NeededAttributes THEN "ArmSetMemoryRegionNoExec"
                                          ELSE "ArmClearMemoryRegionNoExec">>

\* The region functions ArmSetMemoryAttributes calls for NeededAttributes,
\* in its order
StepsFor(NeededAttributes) ==
  <<IF EFI_MEMORY.RP \in NeededAttributes THEN "ArmSetMemoryRegionNoAccess"
                                          ELSE "ArmClearMemoryRegionNoAccess",
    IF EFI_MEMORY.RO \in NeededAttributes THEN "ArmSetMemoryRegionReadOnly"
                                          ELSE "ArmClearMemoryRegionReadOnly",
    IF EFI_MEMORY.XP \in NeededAttributes THEN "ArmSetMemoryRegionNoExec"
                                          ELSE "ArmClearMemoryRegionNoExec">>

\* ArmSetMemoryAttributes; env[i] holds the responses to the i-th region
\* function, steps the region functions that were called
ArmSetMemoryAttributesResult(a, env, Uninit) ==
  LET NeededAttributes == a.Attributes \cap a.AttributeMask
      names == StepsFor(NeededAttributes)
      s(i) == ArmMemoryRegionStep(names[i], a.BaseAddress, a.Length, env[i], Uninit)
  IN
  IF \/ a.Length = 0
     \/ NeededAttributes \ {EFI_MEMORY.RO, EFI_MEMORY.RP, EFI_MEMORY.XP} # {}
  THEN [status |-> "EFI_INVALID_PARAMETER", events |-> <<>>, steps |-> <<>>]
  ELSE IF EFI_ERROR(s(1).status)
  THEN [status |-> s(1).status, events |-> s(1).events,
        steps |-> SubSeq(names, 1, 1)]
  ELSE IF EFI_ERROR(s(2).status)
  THEN [status |-> s(2).status, events |-> s(1).events \o s(2).events,
        steps |-> SubSeq(names, 1, 2)]
  ELSE [status |-> s(3).status,
        events |-> s(1).events \o s(2).events \o s(3).events,
        steps |-> names]

\* The arguments callers pass: a length of 0 and one of three pages, and
\* attributes with and without bits the function does not support (bit 3 is
\* EFI_MEMORY_WB), under a mask that keeps or drops them
AllBits == 0 .. 63

MemoryAttributeInputs ==
  [BaseAddress : {<<0, \h0010, 0, 0>>}, Length : {0, 8193},
   Attributes : {{}, {13, 14, 17}, {17, 3}, {14}},
   AttributeMask : {AllBits, {13, 14, 17}}]

\* What the remote side may answer to the version query, a permission-get
\* and a permission-set request
MemoryAnswers ==
  [Version : {SetArg(ZeroArgs, 0, <<2, 1, 0, 0>>),
              SetArg(ZeroArgs, 0, ARM_FFA_RET_NOT_SUPPORTED)},
   Get : {SetArg(SetArg(ZeroArgs, 0, ARM_FID_FFA_SUCCESS_AARCH32), 2, <<7, 0, 0, 0>>),
          SetArg(ZeroArgs, 0, <<1, 0, 0, 0>>),
          ErrorResponse(ARM_FFA_RET_DENIED),
          ErrorResponse(ARM_FFA_RET_SUCCESS)},
   Set : {ZeroArgs, ErrorResponse(ARM_FFA_RET_DENIED)}]

ArmSetMemoryAttributes ==
  /\ pc = "idle"
  /\ \E a \in MemoryAttributeInputs, env \in [1 .. 3 -> MemoryAnswers],
        Uninit \in {<<5, 0, 0, 0>>} :
       LET o == ArmSetMemoryAttributesResult(a, env, Uninit)
       IN LibraryCall("ArmSetMemoryAttributes", a,
                      [status |-> o.status, steps |-> o.steps], o.events,
                      Registered)

MmuNext ==
  \/ ArmSetMemoryAttributes
  \/ CallerProceeds

MmuSpec == Init /\ [][MmuNext]_vars

-----------------------------------------------------------------------------
(* Properties of the Rx/Tx buffer pair *)

\* C36: whatever ArmFfaLibRxTxMap and ArmFfaLibRxTxUnmap calls were made, the
\* registered Tx and Rx addresses are both zero or both non-zero, and a
\* registered Rx buffer starts one buffer size (page count * page size) after
\* the Tx buffer; ArmFfaLibGetRxTxBuffers returns EFI_NOT_READY exactly when
\* an address is zero, writing nothing, and otherwise succeeds and writes to
\* every output it was given the registered address or the size
\* page count * page size.
C36_BuffersPaired ==
  /\ (PcdFfaTxBuffer = 0) <=> (PcdFfaRxBuffer = 0)
  /\ PcdFfaTxBuffer # 0 =>
       PcdFfaRxBuffer = PcdFfaTxBuffer + PcdFfaTxRxPageCount * EFI_PAGE_SIZE
  /\ Applied("ArmFfaLibGetRxTxBuffers") =>
       /\ ret.status = "EFI_NOT_READY" <=> (PcdFfaTxBuffer = 0 \/ PcdFfaRxBuffer = 0)
       /\ ret.status = "EFI_NOT_READY" => DOMAIN ret.written = {}
       /\ ret.status # "EFI_NOT_READY" =>
            /\ ret.status = "EFI_SUCCESS"
            /\ DOMAIN ret.written = args.Wanted
            /\ \A n \in args.Wanted :
                 ret.written[n] =
                   CASE n = "TxBuffer" -> PcdFfaTxBuffer
                     [] n = "RxBuffer" -> PcdFfaRxBuffer
                     [] OTHER -> PcdFfaTxRxPageCount * EFI_PAGE_SIZE

\* The buffers of a registered pair of four pages each are reported
C36_Witness ==
  /\ Applied("ArmFfaLibGetRxTxBuffers")
  /\ args.Wanted = OutputNames
  /\ ret.status = "EFI_SUCCESS"
  /\ PcdFfaTxRxPageCount = 4
  /\ ret.written["TxBuffer"] = 1048576
  /\ ret.written["RxBuffer"] = 1048576 + 16384
  /\ ret.written["TxBufferSize"] = 16384
  /\ ret.written["RxBufferSize"] = 16384

\* A call of operation name returns in this step
Calls(name) == pc = "idle" /\ pc' = "returned" /\ op' = name

\* C37: the buffer pair is registered at most once at a time.
\* ArmFfaLibRxTxMap called while both buffers are registered returns
\* EFI_ALREADY_STARTED without an exchange, an allocation or a change of the
\* registration (and returns that status in no other case); an
\* ArmFfaLibRxTxUnmap the remote side accepts succeeds and leaves both
\* addresses zero, and whenever both are zero and the configured size is at
\* least a page a map call can register.
C37_RegisteredOnce ==
  /\ [][Calls("ArmFfaLibRxTxMap") =>
          IF PcdFfaTxBuffer # 0 /\ PcdFfaRxBuffer # 0
          THEN /\ ret'.status = "EFI_ALREADY_STARTED"
               /\ trace' = <<>>
               /\ UNCHANGED buffers
          ELSE ret'.status # "EFI_ALREADY_STARTED"]_vars
  /\ [][Calls("ArmFfaLibRxTxUnmap") /\ ~IsFfaError(Result') =>
          /\ ret'.status = "EFI_SUCCESS"
          /\ PcdFfaTxBuffer' = 0
          /\ PcdFfaRxBuffer' = 0]_vars
  /\ []((pc = "idle" /\ PcdFfaTxBuffer = 0 /\ PcdFfaRxBuffer = 0
           /\ PcdFfaTxRxPageCount >= 1) =>
          ENABLED (/\ ArmFfaLibRxTxMap
                   /\ ret'.status = "EFI_SUCCESS"
                   /\ PcdFfaTxBuffer' # 0
                   /\ PcdFfaRxBuffer' # 0))

\* A map call finds the pair registered
C37_Witness ==
  /\ Applied("ArmFfaLibRxTxMap")
  /\ ret.status = "EFI_ALREADY_STARTED"
  /\ trace = <<>>
  /\ PcdFfaTxBuffer = 2097152
  /\ PcdFfaRxBuffer = 2097152 + 32 * EFI_PAGE_SIZE

\* The blocks a call was given by the allocator, and the blocks it freed
AllocatedBy(t) == {t[i].val : i \in EventsOf(t, "allocate")} \ {Zero64}

FreedBy(t) == {t[i].val : i \in EventsOf(t, "free")}

\* The map call of this step failed: it returns an error, or the remote side
\* answered its map request with an error
MapFailed ==
  \/ EFI_ERROR(ret'.status)
  \/ Arg(Request', 0) = ARM_FID_FFA_RXTX.MAP /\ IsFfaError(Result')

\* C38: a failed ArmFfaLibRxTxMap leaves the registered addresses and the
\* allocated pages as they were, having freed, once, every block it was
\* given; an ArmFfaLibRxTxUnmap the remote side refuses changes nothing and
\* frees nothing; one the remote side accepts clears both addresses and
\* frees the registered block, once.  Hence the allocated pages are at any
\* time those of the registered pair.
C38_FailureLeavesNoTrace ==
  /\ [][Calls("ArmFfaLibRxTxMap") /\ MapFailed =>
          /\ UNCHANGED buffers
          /\ FreedBy(trace') = AllocatedBy(trace')
          /\ Cardinality(EventsOf(trace', "free")) = Cardinality(FreedBy(trace'))]_vars
  /\ [][Calls("ArmFfaLibRxTxUnmap") =>
          IF IsFfaError(Result')
          THEN UNCHANGED buffers /\ EventsOf(trace', "free") = {}
          ELSE /\ PcdFfaTxBuffer' = 0
               /\ PcdFfaRxBuffer' = 0
               /\ AllocatedPages' = AllocatedPages \ {PcdFfaTxBuffer}
               /\ FreedBy(trace') =
                    IF PcdFfaTxBuffer = 0 THEN {} ELSE {U32Of(PcdFfaTxBuffer)}
               /\ Cardinality(EventsOf(trace', "free")) =
                    Cardinality(FreedBy(trace'))]_vars
  /\ [](AllocatedPages = IF PcdFfaTxBuffer = 0 THEN {} ELSE {PcdFfaTxBuffer})

\* The remote side has refused the map request for a block the call had
\* allocated, and the call has freed the block
C38_Witness ==
  /\ Applied("ArmFfaLibRxTxMap")
  /\ ret.status = "EFI_ACCESS_DENIED"
  /\ Arg(Request, 0) = ARM_FID_FFA_RXTX.MAP
  /\ AllocatedBy(trace) = {U32Of(1048576)}
  /\ FreedBy(trace) = {U32Of(1048576)}
  /\ PcdFfaTxBuffer = 0
  /\ PcdFfaRxBuffer = 0
  /\ AllocatedPages = {}

-----------------------------------------------------------------------------
(* Properties of ArmSetMemoryAttributes *)

\* Positions in the trace of the permission-get and permission-set requests
PermGets ==
  Asked(trace, ARM_FID_MEM_PERM.FFA_GET) \cup Asked(trace, ARM_FID_MEM_PERM.MM_GET)

PermSets ==
  Asked(trace, ARM_FID_MEM_PERM.FFA_SET) \cup Asked(trace, ARM_FID_MEM_PERM.MM_SET)

\* The status of the exchange whose request is at position i of the trace
ExchangeStatus(i) ==
  SendMemoryPermissionRequest(
    Arg(trace[i].val, 0) \in {ARM_FID_MEM_PERM.FFA_GET, ARM_FID_MEM_PERM.FFA_SET},
    trace[i + 1].val, Zero64).status

\* The status of the step whose permission-get request is at position g
StepStatus(g) ==
  IF EFI_ERROR(ExchangeStatus(g)) THEN ExchangeStatus(g) ELSE ExchangeStatus(g + 2)

\* The k-th permission-get request
NthGet(k) == CHOOSE g \in PermGets : Cardinality({h \in PermGets : h <= g}) = k

\* C39: ArmSetMemoryAttributes called with Length 0, or with masked
\* attributes that have a bit other than read-only, read-protect and
\* execute-protect, returns EFI_INVALID_PARAMETER without an exchange.
\* Otherwise it takes the steps no-access, read-only, no-execute in this
\* order, each the set or the clear function as the masked attributes have
\* the bit or not; of the permission exchanges, each step is one
\* permission-get, followed by one permission-set exactly when the get
\* succeeded; a step follows only steps that succeeded, the call returns the
\* status of its last step, and it sends nothing but these requests and the
\* version query that precedes each get.
C39_PermissionStepsInOrder ==
  Applied("ArmSetMemoryAttributes") =>
    LET Needed == args.Attributes \cap args.AttributeMask
        n == Len(ret.steps)
    IN
    IF args.Length = 0 \/ Needed \ {13, 14, 17} # {}
    THEN ret.status = "EFI_INVALID_PARAMETER" /\ trace = <<>> /\ n = 0
    ELSE
      /\ n \in 1 .. 3
      /\ n >= 1 => ret.steps[1] = IF 13 \in Needed
                                  THEN "ArmSetMemoryRegionNoAccess"
                                  ELSE "ArmClearMemoryRegionNoAccess"
      /\ n >= 2 => ret.steps[2] = IF 17 \in Needed
                                  THEN "ArmSetMemoryRegionReadOnly"
                                  ELSE "ArmClearMemoryRegionReadOnly"
      /\ n >= 3 => ret.steps[3] = IF 14 \in Needed
                                  THEN "ArmSetMemoryRegionNoExec"
                                  ELSE "ArmClearMemoryRegionNoExec"
      /\ Cardinality(PermGets) = n
      /\ EventsOf(trace, "request") =
           PermGets \cup PermSets \cup Asked(trace, ARM_FFA_VERSION.FID)
      /\ \A g \in PermGets :
           /\ g - 2 \in Asked(trace, ARM_FFA_VERSION.FID)
           /\ Arg(trace[g].val, 1) = args.BaseAddress
           /\ (g + 2 \in PermSets) <=> ~EFI_ERROR(ExchangeStatus(g))
      /\ \A s \in PermSets :
           /\ s - 2 \in PermGets
           /\ Arg(trace[s].val, 1) = args.BaseAddress
           /\ (Arg(trace[s].val, 0) = ARM_FID_MEM_PERM.FFA_SET)
                <=> (Arg(trace[s - 2].val, 0) = ARM_FID_MEM_PERM.FFA_GET)
      /\ \A k \in 1 .. n - 1 : ~EFI_ERROR(StepStatus(NthGet(k)))
      /\ ret.status = StepStatus(NthGet(n))
      /\ n < 3 => EFI_ERROR(ret.status)
      /\ (n >= 2 /\ NthGet(2) + 2 \in PermSets) =>
           (Arg(trace[NthGet(2) + 2].val, 3)[1] % 4 = 3) <=> (17 \in Needed)
      /\ (n >= 3 /\ NthGet(3) + 2 \in PermSets) =>
           ((Arg(trace[NthGet(3) + 2].val, 3)[1] \div 4) % 2 = 1) <=> (14 \in Needed)

\* The read-only step fails at its permission-set request after the
\* no-access step was applied, and the call returns that error
C39_Witness ==
  /\ Applied("ArmSetMemoryAttributes")
  /\ args.Attributes \cap args.AttributeMask = {17}
  /\ ret.steps = <<"ArmClearMemoryRegionNoAccess", "ArmSetMemoryRegionReadOnly">>
  /\ ret.status = "EFI_ACCESS_DENIED"
  /\ Cardinality(PermGets) = 2
  /\ Cardinality(PermSets) = 2
  /\ Len(trace) = 12
=============================================================================
